---- MODULE Spec2Model ----
(***************************************************************************)
(* Verification model of fasthttp_hpdummy_server: the bounded-memory      *)
(* streaming engine (common/stream.go), the drain flag (common/types.go)  *)
(* and the shutdown sequence of main() with the HTTP and gRPC servers.    *)
(*                                                                         *)
(* The variables are kept in groups side by side: the emission group      *)
(* follows one streaming response from the handler that sets it up to the *)
(* return of its buffer and StreamWriter; the pool group follows the      *)
(* buffers shared by concurrent responses; the drain group follows the    *)
(* process from serving to exit; the message loop group follows one gRPC  *)
(* stream and one WebSocket connection; the host group follows main()'s   *)
(* startup and the request handed to a handler; the emitter pool group    *)
(* follows the StreamWriters shared through streamWriterPool; the gRPC    *)
(* call group follows the calls dispatched to the interceptors; the       *)
(* request body group follows the reading of one request body.  Each      *)
(* specification moves some groups and leaves the others unchanged.       *)
(***************************************************************************)
EXTENDS Integers, Sequences, FiniteSets, TLC

(***************************************************************************)
(* Bounds of the model.  Sizes are scaled down: the source's int64/int    *)
(* are IntBits wide here, so that sizes near the top of the range are     *)
(* reachable by the model checker.                                        *)
(***************************************************************************)
IntBits == 4

MaxChunkSize == 3

MaxBufferSize == 3

MaxDelayMs == 1

MaxReadLen == 3

MaxConns == 2

MaxStreams == 2

MaxLateCalls == 1

MaxResponses == 2

MaxIsoTotal == 2

MaxCalls == 3

MaxBodyLen == 7

(***************************************************************************)
(* Fixed-width integer arithmetic of the Go source.                       *)
(***************************************************************************)
RECURSIVE Pow2(_)
Pow2(n) ==
    IF n = 0 THEN 1 ELSE 2 * Pow2(n - 1)

MaxInt64 ==
    Pow2(IntBits - 1) - 1

MinInt64 ==
    0 - Pow2(IntBits - 1)

\* Two's-complement wrap-around of an arithmetic result.
Int64(x) ==
    ((x - MinInt64) % Pow2(IntBits)) + MinInt64

\* Go's integer division truncates toward zero (b > 0 at every use).
GoDiv(a, b) ==
    IF a >= 0 THEN a \div b ELSE 0 - ((0 - a) \div b)

Min(a, b) ==
    IF a < b THEN a ELSE b

(***************************************************************************)
(* Pattern generator and pooled buffer content.  A byte is represented by *)
(* its index in the 36-character base pattern "A..Z0..9".                 *)
(***************************************************************************)
BasePatternLen == 36

\* InitBinaryBufferPool: DataPattern[i] = basePattern[i % len(basePattern)]
DataPattern(n) ==
    [i \in 1..n |-> (i - 1) % BasePatternLen]

\* A chunk made without a fill pattern: make([]byte, chunkSize) alone.
NewChunkUnfilled(n) ==
    [i \in 1..n |-> 0]

\* ChunkBufferPool.New: a chunk of chunkSize bytes filled by copying the
\* fill pattern repeatedly (the pattern has the chunk's length).
NewChunk(n) ==
    [i \in 1..n |-> DataPattern(n)[((i - 1) % n) + 1]]

\* Go slice expression b[lo:hi] (0-based, hi exclusive).
Slice(b, lo, hi) ==
    SubSeq(b, lo + 1, hi)

BufferSizes ==
    1..MaxBufferSize

TotalSizes ==
    MinInt64..MaxInt64

ChunkSizes ==
    1..MaxChunkSize

Delays ==
    0..MaxDelayMs

VARIABLES
    \* ---- emission group ----
    bufferSize,   \* len(*ChunkData): the pool's configured chunk size
    pc,           \* position of the stream's task
    path,         \* which adapter serves the response
    sw,           \* the StreamWriter's fields
    loc,          \* locals of the running Write / WriteTo
    w,            \* the sink: bytes accepted, log of sink operations
    pool,         \* Get/Put counts of the buffer pool and streamWriterPool
    cleaned,      \* autoCleanupReader.cleaned
    args,         \* arguments captured by the body stream writer closure
    adapter,      \* calls made on the autoCleanupReader by the transport
    \* ---- pool group ----
    BinaryBufferPool, \* the shared pool: the chunks created, those it stores
    streams,      \* the concurrent streaming responses and their buffers
    \* ---- drain group ----
    Draining,     \* common.Draining
    mainPc,       \* position of main() from the wait for a signal on
    httpPc,       \* the goroutine that shuts the HTTP server down
    grpcPc,       \* the goroutine that shuts the gRPC server down
    gracefulPc,   \* the goroutine of Server.Shutdown running GracefulStop
    wg,           \* the WaitGroup counter
    httpStop,     \* the HTTP server is shutting down (listener closed)
    httpConns,    \* open connections of the HTTP server
    grpcStreams,  \* RPCs in progress on the gRPC server
    ctxLeft,      \* seconds until shutdownCtx is done (-1: not created)
    graceLeft,    \* seconds left of the grace period sleep
    elapsed,      \* seconds passed since the drain flag was set
    openAtCheck,  \* openConns as read by main (-1: not read)
    resp,         \* the last HTTP response
    logs,         \* what the shutdown sequence has logged
    ret,          \* the error each server's shutdown call returned
    \* ---- message loop group ----
    rpc,          \* one bidirectional StreamEcho RPC
    ws,           \* one WebSocket echo connection
    \* ---- host group ----
    boot,         \* main() from flag.Parse to the start of the HTTP server
    request,      \* the request the transport hands to a handler
    \* ---- emitter pool group ----
    streamWriterPool, \* the StreamWriters created, those the pool stores
    readers,      \* the concurrent responses and the emitter each refers to
    \* ---- gRPC call group ----
    grpcCalls,    \* the gRPC calls dispatched to the interceptors
    \* ---- request body group ----
    reqBody       \* the request body being read, and the RequestJSON fields

emitVars ==
    <<bufferSize, pc, path, sw, loc, w, pool, cleaned, args, adapter>>

drainVars ==
    <<Draining, mainPc, httpPc, grpcPc, gracefulPc, wg, httpStop, httpConns,
      grpcStreams, ctxLeft, graceLeft, elapsed, openAtCheck, resp, logs, ret>>

poolVars ==
    <<BinaryBufferPool, streams>>

loopVars ==
    <<rpc, ws>>

hostVars ==
    <<boot, request>>

isoVars ==
    <<streamWriterPool, readers>>

callVars ==
    <<grpcCalls>>

bodyVars ==
    <<reqBody>>

vars ==
    <<bufferSize, pc, path, sw, loc, w, pool, cleaned, args, adapter,
      BinaryBufferPool, streams,
      Draining, mainPc, httpPc, grpcPc, gracefulPc, wg, httpStop, httpConns,
      grpcStreams, ctxLeft, graceLeft, elapsed, openAtCheck, resp, logs, ret,
      rpc, ws, boot, request, streamWriterPool, readers, grpcCalls,
      reqBody>>

ChunkData ==
    NewChunk(bufferSize)

NoLocals ==
    [remaining |-> 0, totalChunks |-> 0, i |-> 0,
     chunkBytesToWrite |-> 0, chunkBytesWritten |-> 0, n |-> 0]

\* No call made on the reader yet.  late counts the calls made after the
\* reader's cleanup; usedReleased records that a call read bytes of the
\* buffer after the reader had returned it to the pool.
NoCalls ==
    [writeTos |-> 0, late |-> 0, usedReleased |-> FALSE]

NoArgs ==
    [totalSize |-> 0, chunkSize |-> 0, delayMs |-> 0, flushPerChunk |-> FALSE,
     connClose |-> FALSE]

InitEmit ==
    /\ bufferSize \in BufferSizes
    /\ pc = "idle"
    /\ path = "none"
    /\ sw = [TotalSize |-> 0, ChunkSize |-> 0, DelayMs |-> 0,
             FlushPerChunk |-> FALSE, written |-> 0]
    /\ loc = NoLocals
    /\ w = [out |-> <<>>, ops |-> <<>>, failed |-> FALSE]
    /\ pool = [bufGets |-> 0, bufPuts |-> 0, swGets |-> 0, swPuts |-> 0]
    /\ cleaned = FALSE
    /\ args = NoArgs
    /\ adapter = NoCalls

NoResp ==
    [route |-> "none", draining |-> FALSE, close |-> FALSE]

InitDrain ==
    /\ Draining = FALSE
    /\ mainPc = "serving"
    /\ httpPc = "none"
    /\ grpcPc = "none"
    /\ gracefulPc = "none"
    /\ wg = 0
    /\ httpStop = FALSE
    /\ httpConns = 0
    /\ grpcStreams = 0
    /\ ctxLeft = -1
    /\ graceLeft = 0
    /\ elapsed = 0
    /\ openAtCheck = -1
    /\ resp = NoResp
    /\ logs = {}
    /\ ret = [http |-> "none", grpc |-> "none"]

\* The concurrent streaming responses of the pool group.
Responses ==
    1..MaxResponses

\* A response that has not started: no buffer, nothing read.
NoStream ==
    [st |-> "idle", buf |-> 0, cleaned |-> FALSE, late |-> FALSE, p |-> <<>>]

\* InitBinaryBufferPool: NewChunkBufferPool, then PreWarm, whose first Get
\* creates a chunk and whose Put stores it; the following Get/Put pairs
\* take it and put it back.
InitPool ==
    /\ BinaryBufferPool = [chunks |-> <<NewChunk(bufferSize)>>, free |-> <<1>>]
    /\ streams = [s \in Responses |-> NoStream]

\* No RPC stream and no WebSocket connection yet.
NoRpc ==
    [pc |-> "none", flag |-> FALSE, loads |-> 0, recvs |-> 0,
     req |-> <<>>, sent |-> <<>>, err |-> "nil"]

NoWs ==
    [pc |-> "none", flag |-> FALSE, checks |-> 0, reads |-> 0,
     msg |-> <<>>, frames |-> <<>>]

InitLoops ==
    /\ rpc = NoRpc
    /\ ws = NoWs

\* A piece of request text that is parsed as a number: absent or empty,
\* not a decimal number, or the decimal number n.
Missing ==
    [kind |-> "missing", n |-> 0]

NotANumber ==
    [kind |-> "text", n |-> 0]

Number(n) ==
    [kind |-> "number", n |-> n]

\* The {size} part of a /bin/ path: decimal digits (or other text, or
\* nothing) followed by at most one letter.
SizeString(num, suffix) ==
    [num |-> num, suffix |-> suffix]

\* No request is being handled.
NoReq ==
    [handler |-> "none", count |-> Missing, size |-> Missing,
     delay |-> Missing, binSize |-> SizeString(Missing, ""),
     chunked |-> FALSE]

\* main() before flag.Parse returns.
NotBooted ==
    [pc |-> "flags", kb |-> 0, inits |-> 0, pattern |-> <<>>,
     listeners |-> {}, pprof |-> "off", served |-> {}, nilGets |-> 0]

\* main() once the HTTP server has been started.  In the specifications
\* that begin here sizes are scaled down, and the flag is taken to be the
\* buffer size itself.
Booted ==
    [NotBooted EXCEPT !.pc = "serving", !.kb = bufferSize, !.inits = 1,
                      !.pattern = DataPattern(bufferSize),
                      !.listeners = {"grpc", "http"}]

InitHost ==
    /\ boot = Booted
    /\ request = NoReq

\* No StreamWriter created yet; no response refers to one.
NoReader ==
    [st |-> "idle", sw |-> 0, chunkData |-> 0, cleaned |-> FALSE,
     pulled |-> 0]

InitIso ==
    /\ streamWriterPool = [objs |-> <<>>, free |-> <<>>, lateCalls |-> 0]
    /\ readers = [s \in Responses |-> NoReader]

\* A RequestJSON as ClearRequestJSON leaves it, and no body to read.
\* len is the length of the request body and left what the reader has
\* not yet returned of it; kept and marker describe Body: its first kept
\* bytes, followed by "...[TRUNCATED]" when marker is true.
NoBody ==
    [pc |-> "idle", path |-> "none", len |-> 0, left |-> 0, n |-> 0,
     discarded |-> 0, preview |-> 0, previewRemaining |-> 0,
     BodySize |-> 0, BodyTruncated |-> FALSE, kept |-> 0, marker |-> FALSE]

InitBody ==
    reqBody = NoBody

\* No gRPC call dispatched yet.
InitCalls ==
    grpcCalls = <<>>

Init ==
    /\ InitEmit
    /\ InitDrain
    /\ InitPool
    /\ InitLoops
    /\ InitHost
    /\ InitIso
    /\ InitCalls
    /\ InitBody

(***************************************************************************)
(* The sink.  w.Write(p) either accepts all of p or fails after accepting *)
(* k < len(p) bytes; w.Flush() succeeds or fails.  Every call is logged.  *)
(***************************************************************************)
SinkWrite(p, ok, k) ==
    [w EXCEPT !.out = @ \o (IF ok THEN p ELSE SubSeq(p, 1, k)),
              !.ops = Append(@, [op |-> "write", n |-> Len(p), ok |-> ok]),
              !.failed = @ \/ ~ok]

SinkFlush(ok) ==
    [w EXCEPT !.ops = Append(@, [op |-> "flush", n |-> 0, ok |-> ok]),
              !.failed = @ \/ ~ok]

SinkSleep ==
    [w EXCEPT !.ops = Append(@, [op |-> "sleep", n |-> sw.DelayMs, ok |-> TRUE])]

\* Short counts a failing write of len bytes may report.
ShortCounts(len) ==
    0..(len - 1)

\* SetConnectionHeader: Connection: close when draining, keep-alive otherwise.
SetConnectionHeader ==
    Draining

(***************************************************************************)
(* StreamResponse: the chunked adapter.  The handler registers a closure; *)
(* the transport invokes it with the sink when it is ready to send.       *)
(***************************************************************************)
StreamResponse(totalSize, chunkSize, delayMs, flushPerChunk) ==
    /\ pc = "idle"
    /\ args' = [totalSize |-> totalSize, chunkSize |-> chunkSize,
                delayMs |-> delayMs, flushPerChunk |-> flushPerChunk,
                connClose |-> SetConnectionHeader]
    /\ path' = "chunked"
    /\ pc' = "registered"
    /\ UNCHANGED <<bufferSize, sw, loc, w, pool, cleaned>>
    /\ UNCHANGED adapter
    /\ UNCHANGED drainVars
    /\ UNCHANGED poolVars
    /\ UNCHANGED loopVars
    /\ UNCHANGED hostVars
    /\ UNCHANGED bodyVars
    /\ UNCHANGED callVars
    /\ UNCHANGED isoVars

\* AcquireStreamWriter followed by the field assignments of the caller.
AcquireStreamWriter(totalSize, chunkSize, delayMs, flushPerChunk) ==
    [TotalSize |-> totalSize, ChunkSize |-> chunkSize, DelayMs |-> delayMs,
     FlushPerChunk |-> flushPerChunk, written |-> 0]

\* totalChunks := int((sw.TotalSize + int64(sw.ChunkSize) - 1) / int64(sw.ChunkSize))
TotalChunks(totalSize, chunkSize) ==
    GoDiv(Int64(Int64(totalSize + chunkSize) - 1), chunkSize)

\* A closure that returns the StreamWriter but not the buffer.
WriteReturnsKeepsBuffer(p) ==
    [p EXCEPT !.swPuts = @ + 1]

\* The deferred calls that run when StreamWriter.Write returns to the
\* closure and the closure returns: streamWriterPool.Put(sw), then
\* BinaryBufferPool.Put(chunkData).
WriteReturns(p) ==
    [p EXCEPT !.swPuts = @ + 1, !.bufPuts = @ + 1]

BulkMode(s) ==
    s.DelayMs = 0 /\ ~s.FlushPerChunk

\* The closure body up to the first sink operation of StreamWriter.Write.
BodyStreamWriter ==
    /\ pc = "registered"
    /\ LET s == AcquireStreamWriter(args.totalSize, args.chunkSize,
                                    args.delayMs, args.flushPerChunk)
           got == [pool EXCEPT !.bufGets = @ + 1, !.swGets = @ + 1]
           tc == TotalChunks(s.TotalSize, s.ChunkSize)
       IN  /\ sw' = s
           /\ IF BulkMode(s)
                 THEN /\ loc' = [NoLocals EXCEPT !.remaining = s.TotalSize]
                      /\ pool' = got
                      /\ pc' = "bulk"
                 ELSE IF tc <= 0
                 THEN /\ loc' = [NoLocals EXCEPT !.totalChunks = tc]
                      /\ pool' = WriteReturns(got)
                      /\ pc' = "done"
                 ELSE /\ loc' = [NoLocals EXCEPT !.totalChunks = tc,
                                                 !.remaining = s.TotalSize]
                      /\ pool' = got
                      /\ pc' = "loop"
    /\ UNCHANGED <<bufferSize, path, w, cleaned, args>>
    /\ UNCHANGED adapter
    /\ UNCHANGED drainVars
    /\ UNCHANGED poolVars
    /\ UNCHANGED loopVars
    /\ UNCHANGED hostVars
    /\ UNCHANGED bodyVars
    /\ UNCHANGED callVars
    /\ UNCHANGED isoVars

\* writeSize of the fast path: a full buffer, or what remains when less.
BulkWriteSizeNoClamp ==
    bufferSize

BulkWriteSize ==
    IF loc.remaining < bufferSize THEN loc.remaining ELSE bufferSize

\* An error branch that goes round its loop again instead of returning.
AfterFailureRetries ==
    pc

\* The return statement of every error branch of StreamWriter.Write.
AfterFailure ==
    "done"

\* A fast path that leaves its loop when the drain flag is set.
BulkContinuesUnlessDraining ==
    loc.remaining > 0 /\ ~Draining

\* The fast path's loop condition: for remaining > 0.
BulkContinues ==
    loc.remaining > 0

\* Fast path: one iteration of the direct write loop.
BulkWrite ==
    /\ pc = "bulk"
    /\ BulkContinues
    /\ LET writeSize == BulkWriteSize
           p == Slice(ChunkData, 0, writeSize)
       IN  \/ /\ w' = SinkWrite(p, TRUE, writeSize)
              /\ loc' = [loc EXCEPT !.remaining = @ - writeSize]
              /\ UNCHANGED <<pc, pool>>
           \/ \E k \in ShortCounts(writeSize) :
                 /\ w' = SinkWrite(p, FALSE, k)
                 /\ pool' = WriteReturns(pool)
                 /\ pc' = AfterFailure
                 /\ UNCHANGED loc
    /\ UNCHANGED <<bufferSize, path, sw, cleaned, args>>
    /\ UNCHANGED adapter
    /\ UNCHANGED drainVars
    /\ UNCHANGED poolVars
    /\ UNCHANGED loopVars
    /\ UNCHANGED hostVars
    /\ UNCHANGED bodyVars
    /\ UNCHANGED callVars
    /\ UNCHANGED isoVars

\* Fast path: the final flush, then return.
BulkFlush ==
    /\ pc = "bulk"
    /\ ~BulkContinues
    /\ \E ok \in BOOLEAN : w' = SinkFlush(ok)
    /\ pool' = WriteReturns(pool)
    /\ pc' = "done"
    /\ UNCHANGED <<bufferSize, path, sw, loc, cleaned, args>>
    /\ UNCHANGED adapter
    /\ UNCHANGED drainVars
    /\ UNCHANGED poolVars
    /\ UNCHANGED loopVars
    /\ UNCHANGED hostVars
    /\ UNCHANGED bodyVars
    /\ UNCHANGED callVars
    /\ UNCHANGED isoVars

\* A delay test that forgets the first iteration.
NeedsDelayEveryChunk ==
    sw.DelayMs > 0

\* Paced mode: the inter-chunk delay at the top of iteration i.
NeedsDelay ==
    loc.i > 0 /\ sw.DelayMs > 0

ChunkSleep ==
    /\ pc = "loop"
    /\ loc.i < loc.totalChunks
    /\ NeedsDelay
    /\ w' = SinkSleep
    /\ pc' = "chunk"
    /\ UNCHANGED <<bufferSize, path, sw, loc, pool, cleaned, args>>
    /\ UNCHANGED adapter
    /\ UNCHANGED drainVars
    /\ UNCHANGED poolVars
    /\ UNCHANGED loopVars
    /\ UNCHANGED hostVars
    /\ UNCHANGED bodyVars
    /\ UNCHANGED callVars
    /\ UNCHANGED isoVars

\* chunkBytesToWrite: the chunk size, or what remains when less.
ChunkBytesToWrite ==
    IF loc.remaining < sw.ChunkSize THEN loc.remaining ELSE sw.ChunkSize

\* Paced mode: the size of chunk i.
ChunkBegin ==
    /\ \/ pc = "chunk"
       \/ pc = "loop" /\ loc.i < loc.totalChunks /\ ~NeedsDelay
    /\ loc' = [loc EXCEPT !.chunkBytesToWrite = ChunkBytesToWrite,
                          !.chunkBytesWritten = 0]
    /\ pc' = "inner"
    /\ UNCHANGED <<bufferSize, path, sw, w, pool, cleaned, args>>
    /\ UNCHANGED adapter
    /\ UNCHANGED drainVars
    /\ UNCHANGED poolVars
    /\ UNCHANGED loopVars
    /\ UNCHANGED hostVars
    /\ UNCHANGED bodyVars
    /\ UNCHANGED callVars
    /\ UNCHANGED isoVars

\* A writeSize clamped to the buffer but not to what is left of the chunk.
ChunkWriteSizeIgnoresWritten ==
    IF loc.chunkBytesToWrite > bufferSize
      THEN bufferSize
      ELSE loc.chunkBytesToWrite

\* writeSize of the inner loop: the rest of the chunk, at most one buffer.
ChunkWriteSize ==
    IF loc.chunkBytesToWrite - loc.chunkBytesWritten > bufferSize
      THEN bufferSize
      ELSE loc.chunkBytesToWrite - loc.chunkBytesWritten

\* Paced mode: one write of the inner loop (at most one buffer long).
ChunkWrite ==
    /\ pc = "inner"
    /\ loc.chunkBytesWritten < loc.chunkBytesToWrite
    /\ LET writeSize == ChunkWriteSize
           p == Slice(ChunkData, 0, writeSize)
       IN  \/ /\ w' = SinkWrite(p, TRUE, writeSize)
              /\ loc' = [loc EXCEPT !.chunkBytesWritten = @ + writeSize]
              /\ UNCHANGED <<pc, pool>>
           \/ \E k \in ShortCounts(writeSize) :
                 /\ w' = SinkWrite(p, FALSE, k)
                 /\ pool' = WriteReturns(pool)
                 /\ pc' = AfterFailure
                 /\ UNCHANGED loc
    /\ UNCHANGED <<bufferSize, path, sw, cleaned, args>>
    /\ UNCHANGED adapter
    /\ UNCHANGED drainVars
    /\ UNCHANGED poolVars
    /\ UNCHANGED loopVars
    /\ UNCHANGED hostVars
    /\ UNCHANGED bodyVars
    /\ UNCHANGED callVars
    /\ UNCHANGED isoVars

\* Paced mode: the end of chunk i, with the per-chunk flush when requested.
ChunkEnd ==
    /\ pc = "inner"
    /\ loc.chunkBytesWritten >= loc.chunkBytesToWrite
    /\ LET next == [loc EXCEPT !.remaining = @ - loc.chunkBytesToWrite,
                               !.i = @ + 1]
       IN  IF sw.FlushPerChunk
             THEN \/ /\ w' = SinkFlush(TRUE)
                     /\ loc' = next
                     /\ pc' = "loop"
                     /\ UNCHANGED pool
                  \/ /\ w' = SinkFlush(FALSE)
                     /\ loc' = [loc EXCEPT !.remaining = @ - loc.chunkBytesToWrite]
                     /\ pool' = WriteReturns(pool)
                     /\ pc' = AfterFailure
             ELSE /\ loc' = next
                  /\ pc' = "loop"
                  /\ UNCHANGED <<w, pool>>
    /\ UNCHANGED <<bufferSize, path, sw, cleaned, args>>
    /\ UNCHANGED adapter
    /\ UNCHANGED drainVars
    /\ UNCHANGED poolVars
    /\ UNCHANGED loopVars
    /\ UNCHANGED hostVars
    /\ UNCHANGED bodyVars
    /\ UNCHANGED callVars
    /\ UNCHANGED isoVars

\* Paced mode: the flush after the last chunk, then return.
FinalFlush ==
    /\ pc = "loop"
    /\ loc.i >= loc.totalChunks
    /\ \E ok \in BOOLEAN : w' = SinkFlush(ok)
    /\ pool' = WriteReturns(pool)
    /\ pc' = "done"
    /\ UNCHANGED <<bufferSize, path, sw, loc, cleaned, args>>
    /\ UNCHANGED adapter
    /\ UNCHANGED drainVars
    /\ UNCHANGED poolVars
    /\ UNCHANGED loopVars
    /\ UNCHANGED hostVars
    /\ UNCHANGED bodyVars
    /\ UNCHANGED callVars
    /\ UNCHANGED isoVars

(***************************************************************************)
(* StreamResponseWithContentLength: the known-length adapter.  The        *)
(* handler acquires the buffer and the StreamWriter itself and hands an   *)
(* autoCleanupReader to the transport, which pulls with Read or hands     *)
(* off with WriteTo.                                                      *)
(***************************************************************************)
StreamResponseWithContentLength(totalSize, chunkSize) ==
    /\ pc = "idle"
    /\ pool' = [pool EXCEPT !.bufGets = @ + 1, !.swGets = @ + 1]
    /\ sw' = AcquireStreamWriter(totalSize, chunkSize, 0, FALSE)
    /\ cleaned' = FALSE
    /\ path' = "contentlength"
    /\ pc' = "reader"
    /\ UNCHANGED <<bufferSize, loc, w, args>>
    /\ UNCHANGED adapter
    /\ UNCHANGED drainVars
    /\ UNCHANGED poolVars
    /\ UNCHANGED loopVars
    /\ UNCHANGED hostVars
    /\ UNCHANGED bodyVars
    /\ UNCHANGED callVars
    /\ UNCHANGED isoVars

\* A Read that clamps to the buffer but not to what remains.
StreamWriterReadNoClamp(lenp) ==
    IF sw.written >= sw.TotalSize
      THEN [n |-> 0, data |-> <<>>, written |-> sw.written, eof |-> TRUE]
      ELSE LET offset == sw.written % bufferSize
               available == bufferSize - offset
               toWrite == Min(lenp, available)
           IN  [n |-> toWrite,
                data |-> Slice(ChunkData, offset, offset + toWrite),
                written |-> sw.written + toWrite,
                eof |-> FALSE]

\* A Read that always copies from the start of the buffer.
StreamWriterReadNoOffset(lenp) ==
    IF sw.written >= sw.TotalSize
      THEN [n |-> 0, data |-> <<>>, written |-> sw.written, eof |-> TRUE]
      ELSE LET remaining == sw.TotalSize - sw.written
               offset == sw.written % bufferSize
               available == bufferSize - offset
               toWrite == Min(Min(lenp, remaining), available)
           IN  [n |-> toWrite,
                data |-> Slice(ChunkData, 0, toWrite),
                written |-> sw.written + toWrite,
                eof |-> FALSE]

\* A Read that never advances: no byte, and no end-of-data either.
StreamWriterReadStalls(lenp) ==
    [n |-> 0, data |-> <<>>, written |-> sw.written, eof |-> FALSE]

\* StreamWriter.Read(p) with len(p) = lenp: the count, the bytes copied
\* into p, the cursor afterwards and whether io.EOF is returned.
StreamWriterRead(lenp) ==
    IF sw.written >= sw.TotalSize
      THEN [n |-> 0, data |-> <<>>, written |-> sw.written, eof |-> TRUE]
      ELSE LET remaining == sw.TotalSize - sw.written
               offset == sw.written % bufferSize
               available == bufferSize - offset
               toWrite == Min(Min(lenp, remaining), available)
           IN  [n |-> toWrite,
                data |-> Slice(ChunkData, offset, offset + toWrite),
                written |-> sw.written + toWrite,
                eof |-> FALSE]

\* The cleanup of autoCleanupReader: pool.Put(chunkData), streamWriterPool.Put(sw).
ReaderCleanup(p) ==
    [p EXCEPT !.bufPuts = @ + 1, !.swPuts = @ + 1]

\* The reader is in the transport's hands and no call on it is running.
\* A reader is followed up to MaxLateCalls calls after its cleanup, and no
\* further once a call has read from the buffer it had returned.
ReaderCallable ==
    /\ pc \in {"reader", "eof", "handedoff"}
    /\ cleaned => adapter.late < MaxLateCalls
    /\ ~adapter.usedReleased

\* The call counters after one more call on the reader.
Called(a) ==
    [a EXCEPT !.late = IF cleaned THEN @ + 1 ELSE @]

\* autoCleanupReader.Read
ReaderRead(lenp) ==
    /\ ReaderCallable
    /\ LET r == StreamWriterRead(lenp)
       IN  /\ sw' = [sw EXCEPT !.written = r.written]
           /\ w' = [w EXCEPT !.out = @ \o r.data]
           /\ adapter' = [Called(adapter) EXCEPT
                             !.usedReleased = @ \/ (cleaned /\ r.n > 0)]
           /\ pc' = IF r.eof /\ pc = "reader" THEN "eof" ELSE pc
           /\ IF r.eof /\ ~cleaned
                 THEN /\ cleaned' = TRUE
                      /\ pool' = ReaderCleanup(pool)
                 ELSE UNCHANGED <<cleaned, pool>>
    /\ UNCHANGED <<bufferSize, path, loc, args>>
    /\ UNCHANGED drainVars
    /\ UNCHANGED poolVars
    /\ UNCHANGED loopVars
    /\ UNCHANGED hostVars
    /\ UNCHANGED bodyVars
    /\ UNCHANGED callVars
    /\ UNCHANGED isoVars

\* autoCleanupReader.WriteTo calls StreamWriter.WriteTo: its entry.
ReaderWriteTo ==
    /\ ReaderCallable
    /\ adapter' = [Called(adapter) EXCEPT !.writeTos = @ + 1]
    /\ loc' = [NoLocals EXCEPT !.remaining = sw.TotalSize, !.n = 0]
    /\ pc' = "writeto"
    /\ UNCHANGED <<bufferSize, path, sw, w, pool, cleaned, args>>
    /\ UNCHANGED drainVars
    /\ UNCHANGED poolVars
    /\ UNCHANGED loopVars
    /\ UNCHANGED hostVars
    /\ UNCHANGED bodyVars
    /\ UNCHANGED callVars
    /\ UNCHANGED isoVars

\* What autoCleanupReader.WriteTo does once StreamWriter.WriteTo returned.
AfterWriteTo ==
    /\ pc' = "handedoff"
    /\ IF ~cleaned
          THEN /\ cleaned' = TRUE
               /\ pool' = ReaderCleanup(pool)
          ELSE UNCHANGED <<cleaned, pool>>

\* StreamWriter.WriteTo: one full-buffer write of the fast path.
WriteToFull ==
    /\ pc = "writeto"
    /\ loc.remaining >= bufferSize
    /\ adapter' = [adapter EXCEPT !.usedReleased = @ \/ cleaned]
    /\ \/ /\ w' = SinkWrite(ChunkData, TRUE, bufferSize)
          /\ loc' = [loc EXCEPT !.n = @ + bufferSize, !.remaining = @ - bufferSize]
          /\ UNCHANGED <<pc, cleaned, pool>>
       \/ \E k \in ShortCounts(bufferSize) :
             /\ w' = SinkWrite(ChunkData, FALSE, k)
             /\ loc' = [loc EXCEPT !.n = @ + k, !.remaining = @ - k]
             /\ AfterWriteTo
    /\ UNCHANGED <<bufferSize, path, sw, args>>
    /\ UNCHANGED drainVars
    /\ UNCHANGED poolVars
    /\ UNCHANGED loopVars
    /\ UNCHANGED hostVars
    /\ UNCHANGED bodyVars
    /\ UNCHANGED callVars
    /\ UNCHANGED isoVars

\* StreamWriter.WriteTo: the final partial buffer, if any, and the return.
WriteToTail ==
    /\ pc = "writeto"
    /\ loc.remaining < bufferSize
    /\ IF loc.remaining > 0
          THEN LET p == Slice(ChunkData, 0, loc.remaining)
               IN  /\ adapter' = [adapter EXCEPT !.usedReleased = @ \/ cleaned]
                   /\ \/ /\ w' = SinkWrite(p, TRUE, loc.remaining)
                         /\ loc' = [loc EXCEPT !.n = @ + loc.remaining]
                      \/ \E k \in ShortCounts(loc.remaining) :
                            /\ w' = SinkWrite(p, FALSE, k)
                            /\ loc' = [loc EXCEPT !.n = @ + k]
          ELSE UNCHANGED <<w, loc, adapter>>
    /\ AfterWriteTo
    /\ UNCHANGED <<bufferSize, path, sw, args>>
    /\ UNCHANGED drainVars
    /\ UNCHANGED poolVars
    /\ UNCHANGED loopVars
    /\ UNCHANGED hostVars
    /\ UNCHANGED bodyVars
    /\ UNCHANGED callVars
    /\ UNCHANGED isoVars

\* The transport stops pulling the body stream (connection error, or a
\* response whose body is never sent): no method of the reader is called
\* again; autoCleanupReader has no Close method.
TransportStops ==
    /\ pc = "reader"
    /\ pc' = "abandoned"
    /\ UNCHANGED <<bufferSize, path, sw, loc, w, pool, cleaned, args>>
    /\ UNCHANGED adapter
    /\ UNCHANGED drainVars
    /\ UNCHANGED poolVars
    /\ UNCHANGED loopVars
    /\ UNCHANGED hostVars
    /\ UNCHANGED bodyVars
    /\ UNCHANGED callVars
    /\ UNCHANGED isoVars

NextEmit ==
    \/ \E t \in TotalSizes, c \in ChunkSizes, d \in Delays, f \in BOOLEAN :
          StreamResponse(t, c, d, f)
    \/ BodyStreamWriter
    \/ BulkWrite
    \/ BulkFlush
    \/ ChunkSleep
    \/ ChunkBegin
    \/ ChunkWrite
    \/ ChunkEnd
    \/ FinalFlush
    \/ \E t \in TotalSizes :
          StreamResponseWithContentLength(t, bufferSize)
    \/ \E lenp \in 0..MaxReadLen : ReaderRead(lenp)
    \/ ReaderWriteTo
    \/ WriteToFull
    \/ WriteToTail
    \/ TransportStops


SpecEmit ==
    Init /\ [][NextEmit]_vars

(***************************************************************************)
(* Observations on the sink log.                                          *)
(***************************************************************************)
NoWriteFailed ==
    \A j \in 1..Len(w.ops) : w.ops[j].op = "write" => w.ops[j].ok

\* The discrete units the sink transmits: the bytes accepted between two
\* successful flushes (a flush with nothing buffered transmits nothing).
RECURSIVE UnitsOf(_, _)
UnitsOf(ops, buffered) ==
    IF ops = <<>> THEN <<>>
    ELSE LET o == Head(ops)
         IN  IF o.op = "write" /\ o.ok
               THEN UnitsOf(Tail(ops), buffered + o.n)
             ELSE IF o.op = "flush" /\ o.ok /\ buffered > 0
               THEN <<buffered>> \o UnitsOf(Tail(ops), 0)
             ELSE UnitsOf(Tail(ops), buffered)

FlushedUnits ==
    UnitsOf(w.ops, 0)

CeilDiv(a, b) ==
    (a + b - 1) \div b

(***************************************************************************)
(* C1.  For every total_size >= 0 and chunk_size > 0, when no sink write  *)
(* fails, the number of bytes written equals total_size on each delivery  *)
(* path: the known-length adapter pulled with Read until EOF, the         *)
(* known-length adapter handed off with WriteTo, and StreamWriter.Write   *)
(* in bulk mode (delay = 0, FlushPerChunk = false).                       *)
(***************************************************************************)
C1_BytesWrittenEqualTotalSize ==
    (sw.TotalSize >= 0 /\ NoWriteFailed) =>
        /\ (pc = "eof" /\ w.ops = <<>>) => Len(w.out) = sw.TotalSize
        /\ (pc = "handedoff" /\ sw.written = 0 /\ adapter.writeTos = 1) =>
               (Len(w.out) = sw.TotalSize /\ loc.n = sw.TotalSize)
        /\ (pc = "done" /\ BulkMode(sw)) => Len(w.out) = sw.TotalSize

\* A bulk emission that needed several full buffers and a partial one.
C1_Witness ==
    /\ pc = "done"
    /\ BulkMode(sw)
    /\ NoWriteFailed
    /\ sw.TotalSize > 2 * bufferSize
    /\ sw.TotalSize % bufferSize # 0
    /\ Len(w.out) = sw.TotalSize

(***************************************************************************)
(* C2.  For every emission started by StreamResponse, on every exit path  *)
(* of StreamWriter.Write (completion, write error, per-chunk flush error, *)
(* final flush error, zero chunks) the borrowed buffer and the            *)
(* StreamWriter are each returned to their pool exactly once, and neither *)
(* is returned while Write is still running.                              *)
(***************************************************************************)
C2_ChunkedReleaseExactlyOnce ==
    path = "chunked" =>
        /\ pc = "done" =>
               /\ pool.bufGets = 1 /\ pool.bufPuts = 1
               /\ pool.swGets = 1 /\ pool.swPuts = 1
        /\ pc # "done" => (pool.bufPuts = 0 /\ pool.swPuts = 0)

\* Write left through the per-chunk flush error after at least one chunk.
C2_Witness ==
    /\ path = "chunked"
    /\ pc = "done"
    /\ w.failed
    /\ Len(w.ops) > 2
    /\ w.ops[Len(w.ops)].op = "flush"
    /\ loc.i < loc.totalChunks
    /\ pool.bufPuts = 1
    /\ pool.swPuts = 1

(***************************************************************************)
(* C3.  Every buffer and StreamWriter acquired by                         *)
(* StreamResponseWithContentLength is returned to its pool exactly once   *)
(* on every path: Read until end-of-data, a single WriteTo (with or       *)
(* without a write error), and a transport that stops pulling before      *)
(* end-of-data or never pulls the body.                                   *)
(***************************************************************************)
C3_KnownLengthReleaseExactlyOnce ==
    (path = "contentlength" /\ pc \in {"eof", "handedoff", "abandoned"}) =>
        /\ pool.bufPuts = 1
        /\ pool.swPuts = 1

\* The transport stopped pulling before end-of-data: nothing was returned.
C3_Witness ==
    /\ path = "contentlength"
    /\ pc = "abandoned"
    /\ pool.bufGets = 1 /\ pool.bufPuts = 0
    /\ pool.swGets = 1 /\ pool.swPuts = 0

(***************************************************************************)
(* C10.  For every total_size >= 0 and chunk_size > 0, StreamWriter.Write *)
(* with FlushPerChunk = true and no sink error produces exactly           *)
(* ceil(total_size/chunk_size) flushed units, each of chunk_size bytes    *)
(* except the last, which has                                             *)
(* total_size - chunk_size*(ceil(total_size/chunk_size)-1) bytes.         *)
(***************************************************************************)
ExpectedUnits(totalSize, chunkSize) ==
    LET n == CeilDiv(totalSize, chunkSize)
    IN  [j \in 1..n |-> IF j < n THEN chunkSize
                                 ELSE totalSize - chunkSize * (n - 1)]

C10_FlushedUnits ==
    (/\ path = "chunked"
     /\ pc = "done"
     /\ sw.FlushPerChunk
     /\ ~w.failed
     /\ sw.TotalSize >= 0) =>
        FlushedUnits = ExpectedUnits(sw.TotalSize, sw.ChunkSize)

\* Write returned without a sink error and without a single unit although
\* total_size is positive.
C10_Witness ==
    /\ path = "chunked"
    /\ pc = "done"
    /\ sw.FlushPerChunk
    /\ ~w.failed
    /\ sw.TotalSize > 0
    /\ FlushedUnits = <<>>

\* The same statement for the sizes whose chunk count the int64
\* arithmetic of Write can represent.
C10_FlushedUnitsBelowOverflow ==
    (/\ path = "chunked"
     /\ pc = "done"
     /\ sw.FlushPerChunk
     /\ ~w.failed
     /\ sw.TotalSize >= 0
     /\ sw.TotalSize + sw.ChunkSize - 1 <= MaxInt64) =>
        FlushedUnits = ExpectedUnits(sw.TotalSize, sw.ChunkSize)

(***************************************************************************)
(* C11.  In a paced emission of n chunks with delay > 0 and no sink       *)
(* error, exactly n-1 delay suspensions occur: none before the first      *)
(* chunk and one between each pair of consecutive chunks, each taken      *)
(* before any byte of the following chunk is written.                     *)
(***************************************************************************)
\* Positions of the suspensions in the sink log.
SleepIndexes ==
    {j \in 1..Len(w.ops) : w.ops[j].op = "sleep"}

\* Bytes the sink accepted in the first j entries of the log.
RECURSIVE BytesIn(_, _)
BytesIn(ops, j) ==
    IF j = 0 THEN 0
    ELSE BytesIn(ops, j - 1)
           + (IF ops[j].op = "write" /\ ops[j].ok THEN ops[j].n ELSE 0)

\* A paced emission with a delay whose sink has not failed.
PacedWithDelay ==
    /\ path = "chunked"
    /\ pc \in {"loop", "chunk", "inner", "done"}
    /\ sw.DelayMs > 0
    /\ ~w.failed

C11_DelaysBetweenChunks ==
    PacedWithDelay =>
        \* every suspension so far stands exactly at a chunk boundary: the
        \* k-th one after k whole chunks and before any byte of chunk k+1
        /\ \A j \in SleepIndexes :
              /\ j > 1
              /\ BytesIn(w.ops, j) =
                     Cardinality({k \in SleepIndexes : k <= j}) * sw.ChunkSize
              /\ w.ops[j].n = sw.DelayMs
        \* a chunk is started only after its suspension
        /\ (pc = "inner" /\ loc.i > 0) =>
               Cardinality(SleepIndexes) = loc.i
        \* a completed emission of n chunks has n-1 suspensions
        /\ (pc = "done" /\ loc.totalChunks >= 1) =>
               /\ loc.i = loc.totalChunks
               /\ loc.totalChunks = CeilDiv(sw.TotalSize, sw.ChunkSize)
               /\ Cardinality(SleepIndexes) = loc.totalChunks - 1

C11_Witness ==
    /\ PacedWithDelay
    /\ pc = "done"
    /\ loc.totalChunks = 3
    /\ Cardinality(SleepIndexes) = 2
    /\ sw.ChunkSize > bufferSize

(***************************************************************************)
(* C12.  For every stream, the cursor (bytes emitted so far) never        *)
(* exceeds total_size and never decreases, after any sequence of Read     *)
(* calls with any requested lengths (total_size being a byte count,       *)
(* total_size >= 0).                                                      *)
(***************************************************************************)
C12_CursorBoundedMonotone ==
    /\ []((path = "contentlength" /\ sw.TotalSize >= 0) =>
              (0 <= sw.written /\ sw.written <= sw.TotalSize))
    /\ [][path = "contentlength" => sw'.written >= sw.written]_vars

\* Reads of several lengths reached end-of-data, and one more Read followed.
C12_Witness ==
    /\ path = "contentlength"
    /\ pc = "eof"
    /\ adapter.writeTos = 0
    /\ adapter.late = 1
    /\ sw.TotalSize > bufferSize
    /\ sw.written = sw.TotalSize

(***************************************************************************)
(* C13.  For every total_size and buffer capacity, the byte sequence      *)
(* produced by driving the known-length adapter with repeated Read calls  *)
(* until EOF, for any sequence of requested lengths, is identical to the  *)
(* byte sequence produced by a single WriteTo hand-off.                   *)
(***************************************************************************)
\* What StreamWriter.WriteTo writes when no write fails: full buffers while
\* remaining >= bufferSize, then the final partial buffer.
RECURSIVE WriteToOutput(_)
WriteToOutput(remaining) ==
    IF remaining >= bufferSize
      THEN ChunkData \o WriteToOutput(remaining - bufferSize)
    ELSE IF remaining > 0
      THEN Slice(ChunkData, 0, remaining)
    ELSE <<>>

\* The response was pulled with Read alone, up to end-of-data.
PulledToEOF ==
    /\ path = "contentlength"
    /\ pc = "eof"
    /\ adapter.writeTos = 0

\* The response was handed off with one WriteTo whose writes all succeeded.
HandedOffOnce ==
    /\ path = "contentlength"
    /\ pc = "handedoff"
    /\ adapter.writeTos = 1
    /\ adapter.late = 0
    /\ sw.written = 0
    /\ NoWriteFailed

C13_ReadEqualsWriteTo ==
    /\ PulledToEOF => w.out = WriteToOutput(sw.TotalSize)
    /\ HandedOffOnce => w.out = WriteToOutput(sw.TotalSize)

\* Several buffers and a partial one, pulled with Read.
C13_Witness ==
    /\ PulledToEOF
    /\ bufferSize > 1
    /\ sw.TotalSize > 2 * bufferSize
    /\ sw.TotalSize % bufferSize # 0
    /\ w.out = WriteToOutput(sw.TotalSize)

(***************************************************************************)
(* The buffer pool shared by concurrent streaming responses.               *)
(* BinaryBufferPool.chunks[id] is the content of the id-th chunk created,  *)
(* BinaryBufferPool.free[id] how many times the pool stores it.  A         *)
(* response goes idle -> writing -> idle on the chunked adapter, and       *)
(* idle -> reading -> released -> idle, or reading -> abandoned, on the    *)
(* known-length adapter.                                                   *)
(***************************************************************************)
\* Chunks the pool may create while it still stores one (a Get that misses
\* the stored chunks); creation with nothing stored is not limited.
MaxBuffers ==
    MaxResponses + 1

\* sync.Pool.Get finds stored chunk id.
PoolTake(bp, id) ==
    [bp EXCEPT !.free[id] = @ - 1]

\* sync.Pool.Get calls New: make([]byte, chunkSize) filled with the pattern.
PoolNew(bp) ==
    [chunks |-> Append(bp.chunks, NewChunk(bufferSize)),
     free |-> Append(bp.free, 0)]

PoolEmpty(bp) ==
    \A id \in 1..Len(bp.free) : bp.free[id] = 0

\* A pool that stops creating chunks after its warm-up.
CanCreateNever(bp) ==
    FALSE

\* Get falls back to New whenever it finds nothing stored.
CanCreate(bp) ==
    PoolEmpty(bp) \/ Len(bp.chunks) < MaxBuffers

\* ChunkBufferPool.Put
PoolPut(bp, id) ==
    [bp EXCEPT !.free[id] = @ + 1]

\* ChunkBufferPool.Get by response s, which goes on in state next.
Get(s, next) ==
    \/ \E id \in 1..Len(BinaryBufferPool.chunks) :
          /\ BinaryBufferPool.free[id] > 0
          /\ BinaryBufferPool' = PoolTake(BinaryBufferPool, id)
          /\ streams' = [streams EXCEPT
                            ![s] = [NoStream EXCEPT !.st = next, !.buf = id]]
    \/ /\ CanCreate(BinaryBufferPool)
       /\ BinaryBufferPool' = PoolNew(BinaryBufferPool)
       /\ streams' = [streams EXCEPT
                         ![s] = [NoStream EXCEPT
                                    !.st = next,
                                    !.buf = Len(BinaryBufferPool.chunks) + 1]]

\* Go's copy(dst, src): min(len(dst), len(src)) elements, into dst.
GoCopy(dst, src) ==
    [i \in 1..Len(dst) |-> IF i <= Len(src) THEN src[i] ELSE dst[i]]

\* The transport's read buffer before a Read: lenp bytes of its own.
TransportBuffer(lenp) ==
    [i \in 1..lenp |-> 255]

\* A copy in the wrong direction: from the caller's slice into the chunk.
ReadCopyReversed(chunk, dst, offset, n) ==
    [chunk |-> GoCopy(chunk, dst), p |-> dst]

\* copy(p, (*sw.ChunkData)[offset:offset+toWrite]) of StreamWriter.Read, and
\* the read of (*sw.ChunkData)[:writeSize] by w.Write: the chunk and the
\* destination afterwards.
ReadCopy(chunk, dst, offset, n) ==
    [chunk |-> chunk, p |-> GoCopy(dst, Slice(chunk, offset, offset + n))]

\* Response s reads n bytes at offset of its chunk into a slice of n bytes.
UseChunk(s, offset, n) ==
    LET id == streams[s].buf
        r == ReadCopy(BinaryBufferPool.chunks[id], TransportBuffer(n), offset, n)
    IN  [bp |-> [BinaryBufferPool EXCEPT !.chunks[id] = r.chunk], p |-> r.p]

\* StreamResponse's closure starts: BinaryBufferPool.Get().
ChunkedStart(s) ==
    /\ streams[s].st = "idle"
    /\ Get(s, "writing")
    /\ UNCHANGED emitVars
    /\ UNCHANGED drainVars
    /\ UNCHANGED loopVars
    /\ UNCHANGED hostVars
    /\ UNCHANGED bodyVars
    /\ UNCHANGED callVars
    /\ UNCHANGED isoVars

\* StreamWriter.Write: w.Write((*sw.ChunkData)[:writeSize]).
ChunkedWrite(s) ==
    /\ streams[s].st = "writing"
    /\ \E n \in 1..bufferSize :
          LET u == UseChunk(s, 0, n)
          IN  /\ BinaryBufferPool' = u.bp
              /\ streams' = [streams EXCEPT ![s].p = u.p]
    /\ UNCHANGED emitVars
    /\ UNCHANGED drainVars
    /\ UNCHANGED loopVars
    /\ UNCHANGED hostVars
    /\ UNCHANGED bodyVars
    /\ UNCHANGED callVars
    /\ UNCHANGED isoVars

\* The closure returns: the deferred BinaryBufferPool.Put(chunkData).
ChunkedReturn(s) ==
    /\ streams[s].st = "writing"
    /\ BinaryBufferPool' = PoolPut(BinaryBufferPool, streams[s].buf)
    /\ streams' = [streams EXCEPT ![s] = NoStream]
    /\ UNCHANGED emitVars
    /\ UNCHANGED drainVars
    /\ UNCHANGED loopVars
    /\ UNCHANGED hostVars
    /\ UNCHANGED bodyVars
    /\ UNCHANGED callVars
    /\ UNCHANGED isoVars

\* StreamResponseWithContentLength: BinaryBufferPool.Get() in the handler.
KnownStart(s) ==
    /\ streams[s].st = "idle"
    /\ Get(s, "reading")
    /\ UNCHANGED emitVars
    /\ UNCHANGED drainVars
    /\ UNCHANGED loopVars
    /\ UNCHANGED hostVars
    /\ UNCHANGED bodyVars
    /\ UNCHANGED callVars
    /\ UNCHANGED isoVars

\* autoCleanupReader.Read before end-of-data: a copy out of the chunk.
KnownRead(s) ==
    /\ streams[s].st = "reading"
    /\ \E offset \in 0..(bufferSize - 1) :
          \E n \in 1..(bufferSize - offset) :
             LET u == UseChunk(s, offset, n)
             IN  /\ BinaryBufferPool' = u.bp
                 /\ streams' = [streams EXCEPT ![s].p = u.p]
    /\ UNCHANGED emitVars
    /\ UNCHANGED drainVars
    /\ UNCHANGED loopVars
    /\ UNCHANGED hostVars
    /\ UNCHANGED bodyVars
    /\ UNCHANGED callVars
    /\ UNCHANGED isoVars

\* A cleanup that does not look at the cleaned flag.
CleanupAlways(s) ==
    TRUE

\* if ... && !r.cleaned
CleanupNeeded(s) ==
    ~streams[s].cleaned

\* The pool after the reader's cleanup, when it is due.
Cleanup(bp, s) ==
    IF CleanupNeeded(s) THEN PoolPut(bp, streams[s].buf) ELSE bp

\* autoCleanupReader.Read returns io.EOF: the cleanup.
KnownEOF(s) ==
    /\ streams[s].st = "reading"
    /\ BinaryBufferPool' = Cleanup(BinaryBufferPool, s)
    /\ streams' = [streams EXCEPT ![s].st = "released", ![s].cleaned = TRUE]
    /\ UNCHANGED emitVars
    /\ UNCHANGED drainVars
    /\ UNCHANGED loopVars
    /\ UNCHANGED hostVars
    /\ UNCHANGED bodyVars
    /\ UNCHANGED callVars
    /\ UNCHANGED isoVars

\* autoCleanupReader.WriteTo: the chunk is written, then the cleanup.
KnownWriteTo(s) ==
    /\ streams[s].st = "reading"
    /\ LET u == UseChunk(s, 0, bufferSize)
       IN  /\ BinaryBufferPool' = Cleanup(u.bp, s)
           /\ streams' = [streams EXCEPT ![s].st = "released",
                                         ![s].cleaned = TRUE,
                                         ![s].p = u.p]
    /\ UNCHANGED emitVars
    /\ UNCHANGED drainVars
    /\ UNCHANGED loopVars
    /\ UNCHANGED hostVars
    /\ UNCHANGED bodyVars
    /\ UNCHANGED callVars
    /\ UNCHANGED isoVars

\* A WriteTo on a reader that has already cleaned up: it writes from the
\* chunk it still refers to, then runs the cleanup test again.
LateWriteTo(s) ==
    /\ streams[s].st = "released"
    /\ ~streams[s].late
    /\ LET u == UseChunk(s, 0, bufferSize)
       IN  /\ BinaryBufferPool' = Cleanup(u.bp, s)
           /\ streams' = [streams EXCEPT ![s].late = TRUE, ![s].p = u.p]
    /\ UNCHANGED emitVars
    /\ UNCHANGED drainVars
    /\ UNCHANGED loopVars
    /\ UNCHANGED hostVars
    /\ UNCHANGED bodyVars
    /\ UNCHANGED callVars
    /\ UNCHANGED isoVars

\* The transport stops pulling: the reader is dropped without cleanup.
KnownAbandon(s) ==
    /\ streams[s].st = "reading"
    /\ streams' = [streams EXCEPT ![s].st = "abandoned"]
    /\ UNCHANGED BinaryBufferPool
    /\ UNCHANGED emitVars
    /\ UNCHANGED drainVars
    /\ UNCHANGED loopVars
    /\ UNCHANGED hostVars
    /\ UNCHANGED bodyVars
    /\ UNCHANGED callVars
    /\ UNCHANGED isoVars

\* The response is over and the reader unreachable: s serves a new request.
ReaderDropped(s) ==
    /\ streams[s].st = "released"
    /\ streams' = [streams EXCEPT ![s] = NoStream]
    /\ UNCHANGED BinaryBufferPool
    /\ UNCHANGED emitVars
    /\ UNCHANGED drainVars
    /\ UNCHANGED loopVars
    /\ UNCHANGED hostVars
    /\ UNCHANGED bodyVars
    /\ UNCHANGED callVars
    /\ UNCHANGED isoVars

NextPool ==
    \/ \E s \in Responses : ChunkedStart(s)
    \/ \E s \in Responses : ChunkedWrite(s)
    \/ \E s \in Responses : ChunkedReturn(s)
    \/ \E s \in Responses : KnownStart(s)
    \/ \E s \in Responses : KnownRead(s)
    \/ \E s \in Responses : KnownEOF(s)
    \/ \E s \in Responses : KnownWriteTo(s)
    \/ \E s \in Responses : LateWriteTo(s)
    \/ \E s \in Responses : KnownAbandon(s)
    \/ \E s \in Responses : ReaderDropped(s)

SpecPool ==
    Init /\ [][NextPool]_vars

\* Response s has chunk id checked out: taken and not put back.
Holds(s, id) ==
    /\ streams[s].buf = id
    /\ streams[s].st \in {"writing", "reading", "abandoned"}

Holders(id) ==
    {s \in Responses : Holds(s, id)}

(***************************************************************************)
(* C14.  Under any interleaving of concurrent streams acquiring and       *)
(* releasing buffers, a buffer is checked out to at most one stream at a  *)
(* time: no buffer is handed to a second stream while a first still holds *)
(* it (and the pool never stores a buffer that is checked out).           *)
(***************************************************************************)
C14_BufferExclusive ==
    \A id \in 1..Len(BinaryBufferPool.chunks) :
        Cardinality(Holders(id)) + BinaryBufferPool.free[id] <= 1

\* A chunk one response has returned is checked out to another one, while
\* a further chunk exists.
C14_Witness ==
    /\ Len(BinaryBufferPool.chunks) > 1
    /\ \E s \in Responses, t \in Responses :
          /\ s # t
          /\ streams[s].st = "released"
          /\ Holds(t, streams[s].buf)

(***************************************************************************)
(* C15.  A stream never uses a buffer after releasing it: for any         *)
(* sequence of Read and WriteTo calls on a known-length adapter, no call  *)
(* made after the adapter has returned its buffer to the pool reads bytes *)
(* from that buffer, and the buffer is never released twice.              *)
(***************************************************************************)
C15_NoUseAfterRelease ==
    path = "contentlength" =>
        /\ ~adapter.usedReleased
        /\ pool.bufPuts <= 1

\* Read reached end-of-data and returned the buffer; the WriteTo that
\* followed wrote the whole body from it.
C15_Witness ==
    /\ path = "contentlength"
    /\ pc = "handedoff"
    /\ adapter.writeTos = 1
    /\ adapter.late = 1
    /\ adapter.usedReleased
    /\ sw.written = sw.TotalSize
    /\ Len(w.out) = 2 * sw.TotalSize

\* The second half of C15 alone: the buffer is never released twice.
C15_NeverReleasedTwice ==
    pool.bufPuts <= 1 /\ pool.swPuts <= 1

(***************************************************************************)
(* C16.  No emitter or adapter operation modifies a pooled buffer: after  *)
(* any number of acquire/emit/release cycles by any number of streams,    *)
(* every buffer of the pool still has the configured capacity and the     *)
(* original fill-pattern content.                                         *)
(***************************************************************************)
C16_BuffersNeverModified ==
    \A id \in 1..Len(BinaryBufferPool.chunks) :
        /\ Len(BinaryBufferPool.chunks[id]) = bufferSize
        /\ BinaryBufferPool.chunks[id] = DataPattern(bufferSize)

\* Two chunks exist, one response has read from the middle of its chunk
\* and another has written from a chunk after having returned it.
C16_Witness ==
    /\ bufferSize > 1
    /\ Len(BinaryBufferPool.chunks) > 1
    /\ \E s \in Responses, t \in Responses :
          /\ s # t
          /\ streams[s].st = "reading"
          /\ streams[s].p = Slice(DataPattern(bufferSize), 1, bufferSize)
          /\ streams[t].late
          /\ streams[t].p = DataPattern(bufferSize)

(***************************************************************************)
(* C17.  acquire never blocks and never fails: every acquire completes    *)
(* with a buffer, a new one being created when no free buffer exists,     *)
(* however many buffers are checked out; the pool never deadlocks.        *)
(***************************************************************************)
C17_AcquireNeverBlocks ==
    \A s \in Responses :
        streams[s].st = "idle" =>
            /\ ENABLED ChunkedStart(s)
            /\ ENABLED KnownStart(s)

\* Every response has a chunk checked out, the last of them created when
\* the pool stored none.
C17_Witness ==
    /\ PoolEmpty(BinaryBufferPool)
    /\ \A s \in Responses : Cardinality({id \in 1..Len(BinaryBufferPool.chunks) : Holds(s, id)}) = 1
    /\ Len(BinaryBufferPool.chunks) = MaxResponses

(***************************************************************************)
(* The drain flag, the HTTP handlers and the shutdown sequence of main(). *)
(* Time is counted in seconds by Tick, which advances to the next expiry  *)
(* of the two timers of the sequence: the grace period sleep and the      *)
(* deadline of shutdownCtx.                                               *)
(***************************************************************************)
ShutdownTimeout == 60

GracePeriod == 1

Running ==
    mainPc # "exited"

\* The routes of Router.Handler, with the 4xx answers of the handlers that
\* return before their headers are set.
Routes ==
    {"echo", "bin", "bin400", "chunked", "chunked400", "delay", "status",
     "upload", "ws4xx", "health", "help"}

\* The handlers that reach common.SetConnectionHeader: echo, delay, status
\* and upload through SendJSONResponseWithStatus, /bin and /chunked on
\* their streaming path.
CallsSetConnectionHeader(route) ==
    route \in {"echo", "bin", "chunked", "delay", "status", "upload"}

\* fasthttp.Server.CloseOnShutdown as configured by NewServer.
CloseOnShutdown ==
    TRUE

HttpConnOpen ==
    /\ Running
    /\ ~httpStop
    /\ httpConns < MaxConns
    /\ httpConns' = httpConns + 1
    /\ UNCHANGED <<Draining, mainPc, httpPc, grpcPc, gracefulPc, wg, httpStop,
                   grpcStreams, ctxLeft, graceLeft, elapsed, openAtCheck, resp, logs>>
    /\ UNCHANGED ret
    /\ UNCHANGED emitVars
    /\ UNCHANGED poolVars
    /\ UNCHANGED loopVars
    /\ UNCHANGED hostVars
    /\ UNCHANGED bodyVars
    /\ UNCHANGED callVars
    /\ UNCHANGED isoVars

HttpConnClose ==
    /\ Running
    /\ httpConns > 0
    /\ httpConns' = httpConns - 1
    /\ UNCHANGED <<Draining, mainPc, httpPc, grpcPc, gracefulPc, wg, httpStop,
                   grpcStreams, ctxLeft, graceLeft, elapsed, openAtCheck, resp, logs>>
    /\ UNCHANGED ret
    /\ UNCHANGED emitVars
    /\ UNCHANGED poolVars
    /\ UNCHANGED loopVars
    /\ UNCHANGED hostVars
    /\ UNCHANGED bodyVars
    /\ UNCHANGED callVars
    /\ UNCHANGED isoVars

\* Router.Handler serving one request on an open connection.  The
\* connection is closed after a response marked Connection: close.
Handler(route) ==
    /\ Running
    /\ httpConns > 0
    /\ LET close == \/ (CallsSetConnectionHeader(route) /\ SetConnectionHeader)
                    \/ (CloseOnShutdown /\ httpStop)
       IN  /\ resp' = [route |-> route, draining |-> Draining, close |-> close]
           /\ httpConns' = IF close THEN httpConns - 1 ELSE httpConns
    /\ UNCHANGED <<Draining, mainPc, httpPc, grpcPc, gracefulPc, wg, httpStop,
                   grpcStreams, ctxLeft, graceLeft, elapsed, openAtCheck, logs>>
    /\ UNCHANGED ret
    /\ UNCHANGED emitVars
    /\ UNCHANGED poolVars
    /\ UNCHANGED loopVars
    /\ UNCHANGED hostVars
    /\ UNCHANGED bodyVars
    /\ UNCHANGED callVars
    /\ UNCHANGED isoVars

\* logStreamInterceptor: a new streaming RPC is refused while draining.
GrpcStreamStart ==
    /\ Running
    /\ gracefulPc = "none"
    /\ grpcStreams < MaxStreams
    /\ ~Draining
    /\ grpcStreams' = grpcStreams + 1
    /\ UNCHANGED <<Draining, mainPc, httpPc, grpcPc, gracefulPc, wg, httpStop,
                   httpConns, ctxLeft, graceLeft, elapsed, openAtCheck, resp, logs>>
    /\ UNCHANGED ret
    /\ UNCHANGED emitVars
    /\ UNCHANGED poolVars
    /\ UNCHANGED loopVars
    /\ UNCHANGED hostVars
    /\ UNCHANGED bodyVars
    /\ UNCHANGED callVars
    /\ UNCHANGED isoVars

\* StreamEcho returns: the client closed its side or the stream failed.
GrpcStreamEnd ==
    /\ Running
    /\ grpcStreams > 0
    /\ grpcStreams' = grpcStreams - 1
    /\ UNCHANGED <<Draining, mainPc, httpPc, grpcPc, gracefulPc, wg, httpStop,
                   httpConns, ctxLeft, graceLeft, elapsed, openAtCheck, resp, logs>>
    /\ UNCHANGED ret
    /\ UNCHANGED emitVars
    /\ UNCHANGED poolVars
    /\ UNCHANGED loopVars
    /\ UNCHANGED hostVars
    /\ UNCHANGED bodyVars
    /\ UNCHANGED callVars
    /\ UNCHANGED isoVars

\* main: receivedSig := <-sig
Signal ==
    /\ mainPc = "serving"
    /\ mainPc' = "signalled"
    /\ UNCHANGED <<Draining, httpPc, grpcPc, gracefulPc, wg, httpStop, httpConns,
                   grpcStreams, ctxLeft, graceLeft, elapsed, openAtCheck, resp, logs>>
    /\ UNCHANGED ret
    /\ UNCHANGED emitVars
    /\ UNCHANGED poolVars
    /\ UNCHANGED loopVars
    /\ UNCHANGED hostVars
    /\ UNCHANGED bodyVars
    /\ UNCHANGED callVars
    /\ UNCHANGED isoVars

\* The store placed before the wait for the signal.
SetDrainingBeforeSignal ==
    /\ mainPc = "serving"
    /\ Draining' = TRUE
    /\ mainPc' = "draining"
    /\ UNCHANGED <<httpPc, grpcPc, gracefulPc, wg, httpStop, httpConns,
                   grpcStreams, ctxLeft, graceLeft, elapsed, openAtCheck, resp, logs>>
    /\ UNCHANGED ret
    /\ UNCHANGED emitVars
    /\ UNCHANGED poolVars
    /\ UNCHANGED loopVars
    /\ UNCHANGED hostVars
    /\ UNCHANGED bodyVars
    /\ UNCHANGED callVars
    /\ UNCHANGED isoVars

\* main: common.Draining.Store(true)
SetDraining ==
    /\ mainPc = "signalled"
    /\ Draining' = TRUE
    /\ mainPc' = "draining"
    /\ UNCHANGED <<httpPc, grpcPc, gracefulPc, wg, httpStop, httpConns,
                   grpcStreams, ctxLeft, graceLeft, elapsed, openAtCheck, resp, logs>>
    /\ UNCHANGED ret
    /\ UNCHANGED emitVars
    /\ UNCHANGED poolVars
    /\ UNCHANGED loopVars
    /\ UNCHANGED hostVars
    /\ UNCHANGED bodyVars
    /\ UNCHANGED callVars
    /\ UNCHANGED isoVars

\* if openConns > 0 { time.Sleep(gracePeriod) }
SleepsGrace(openConns) ==
    openConns > 0

\* main: shutdownCtx with its timeout, then the open connection check and
\* the start of the grace period sleep.
BeginShutdown ==
    /\ mainPc = "draining"
    /\ ctxLeft' = ShutdownTimeout
    /\ openAtCheck' = httpConns
    /\ IF SleepsGrace(httpConns)
          THEN /\ graceLeft' = GracePeriod
               /\ mainPc' = "grace"
          ELSE /\ graceLeft' = 0
               /\ mainPc' = "spawnHTTP"
    /\ UNCHANGED <<Draining, httpPc, grpcPc, gracefulPc, wg, httpStop, httpConns,
                   grpcStreams, elapsed, resp, logs>>
    /\ UNCHANGED ret
    /\ UNCHANGED emitVars
    /\ UNCHANGED poolVars
    /\ UNCHANGED loopVars
    /\ UNCHANGED hostVars
    /\ UNCHANGED bodyVars
    /\ UNCHANGED callVars
    /\ UNCHANGED isoVars

\* The grace period sleep is over.
SleepReturnsAtOnce ==
    TRUE

SleepReturns ==
    graceLeft = 0

\* time.Sleep(gracePeriod) returns.
GraceOver ==
    /\ mainPc = "grace"
    /\ SleepReturns
    /\ mainPc' = "spawnHTTP"
    /\ UNCHANGED <<Draining, httpPc, grpcPc, gracefulPc, wg, httpStop, httpConns,
                   grpcStreams, ctxLeft, graceLeft, elapsed, openAtCheck, resp, logs>>
    /\ UNCHANGED ret
    /\ UNCHANGED emitVars
    /\ UNCHANGED poolVars
    /\ UNCHANGED loopVars
    /\ UNCHANGED hostVars
    /\ UNCHANGED bodyVars
    /\ UNCHANGED callVars
    /\ UNCHANGED isoVars

\* main: wg.Add(1); go func() { ... server.ShutdownWithContext ... }()
SpawnHTTPShutdown ==
    /\ mainPc = "spawnHTTP"
    /\ wg' = wg + 1
    /\ httpPc' = "spawned"
    /\ mainPc' = "spawnGRPC"
    /\ UNCHANGED <<Draining, grpcPc, gracefulPc, httpStop, httpConns,
                   grpcStreams, ctxLeft, graceLeft, elapsed, openAtCheck, resp, logs>>
    /\ UNCHANGED ret
    /\ UNCHANGED emitVars
    /\ UNCHANGED poolVars
    /\ UNCHANGED loopVars
    /\ UNCHANGED hostVars
    /\ UNCHANGED bodyVars
    /\ UNCHANGED callVars
    /\ UNCHANGED isoVars

\* main: wg.Add(1); go func() { ... grpcSrv.Shutdown ... }()
SpawnGRPCShutdown ==
    /\ mainPc = "spawnGRPC"
    /\ wg' = wg + 1
    /\ grpcPc' = "spawned"
    /\ mainPc' = "wait"
    /\ UNCHANGED <<Draining, httpPc, gracefulPc, httpStop, httpConns,
                   grpcStreams, ctxLeft, graceLeft, elapsed, openAtCheck, resp, logs>>
    /\ UNCHANGED ret
    /\ UNCHANGED emitVars
    /\ UNCHANGED poolVars
    /\ UNCHANGED loopVars
    /\ UNCHANGED hostVars
    /\ UNCHANGED bodyVars
    /\ UNCHANGED callVars
    /\ UNCHANGED isoVars

\* A Wait that returns while one goroutine has not called Done.
WaitReturnsEarly ==
    wg <= 1

\* wg.Wait() returns when the counter is zero.
WaitReturns ==
    wg = 0

\* main: wg.Wait(); log "=== Server Stopped ==="
WaitDone ==
    /\ mainPc = "wait"
    /\ WaitReturns
    /\ mainPc' = "stopped"
    /\ logs' = logs \cup {"server stopped"}
    /\ UNCHANGED <<Draining, httpPc, grpcPc, gracefulPc, wg, httpStop, httpConns,
                   grpcStreams, ctxLeft, graceLeft, elapsed, openAtCheck, resp>>
    /\ UNCHANGED ret
    /\ UNCHANGED emitVars
    /\ UNCHANGED poolVars
    /\ UNCHANGED loopVars
    /\ UNCHANGED hostVars
    /\ UNCHANGED bodyVars
    /\ UNCHANGED callVars
    /\ UNCHANGED isoVars

\* main returns: the process ends and its remaining connections with it.
Exit ==
    /\ mainPc = "stopped"
    /\ mainPc' = "exited"
    /\ httpConns' = 0
    /\ grpcStreams' = 0
    /\ UNCHANGED <<Draining, httpPc, grpcPc, gracefulPc, wg, httpStop,
                   ctxLeft, graceLeft, elapsed, openAtCheck, resp, logs>>
    /\ UNCHANGED ret
    /\ UNCHANGED emitVars
    /\ UNCHANGED poolVars
    /\ UNCHANGED loopVars
    /\ UNCHANGED hostVars
    /\ UNCHANGED bodyVars
    /\ UNCHANGED callVars
    /\ UNCHANGED isoVars

\* <-ctx.Done() of shutdownCtx is ready.
ContextNeverDone ==
    FALSE

ContextDone ==
    ctxLeft = 0

\* What the HTTP goroutine logs for the result of ShutdownWithContext.
HttpShutdownLog(err) ==
    IF err = "nil" THEN "http shutdown complete"
    ELSE IF err = "DeadlineExceeded" THEN "http shutdown timeout, forcing close"
    ELSE "http shutdown error"

\* The HTTP goroutine calls server.ShutdownWithContext(shutdownCtx): the
\* server is marked as stopping and its listener is closed; when closing
\* the listener fails the call returns that error at once, otherwise it
\* starts waiting for the open connections.
HttpShutdownCall ==
    /\ Running
    /\ httpPc = "spawned"
    /\ httpStop' = TRUE
    /\ \/ /\ httpPc' = "shutting"
          /\ UNCHANGED <<wg, logs, ret>>
       \/ /\ httpPc' = "returned"
          /\ ret' = [ret EXCEPT !.http = "other"]
          /\ logs' = logs \cup {HttpShutdownLog("other")}
          /\ wg' = wg - 1
    /\ UNCHANGED <<Draining, mainPc, grpcPc, gracefulPc, httpConns,
                   grpcStreams, ctxLeft, graceLeft, elapsed, openAtCheck, resp>>
    /\ UNCHANGED emitVars
    /\ UNCHANGED poolVars
    /\ UNCHANGED loopVars
    /\ UNCHANGED hostVars
    /\ UNCHANGED bodyVars
    /\ UNCHANGED callVars
    /\ UNCHANGED isoVars

\* ShutdownWithContext returns: nil once no connection is open, or the
\* context's error once the context is done while connections are still
\* open (they are left open); the goroutine logs the result and calls
\* wg.Done().
HttpShutdownReturn ==
    /\ Running
    /\ httpPc = "shutting"
    /\ \E err \in {"nil", "DeadlineExceeded"} :
          /\ err = "nil" => httpConns = 0
          /\ err = "DeadlineExceeded" => (ContextDone /\ httpConns > 0)
          /\ logs' = logs \cup {HttpShutdownLog(err)}
          /\ ret' = [ret EXCEPT !.http = err]
    /\ wg' = wg - 1
    /\ httpPc' = "returned"
    /\ UNCHANGED <<Draining, mainPc, grpcPc, gracefulPc, httpStop, httpConns,
                   grpcStreams, ctxLeft, graceLeft, elapsed, openAtCheck, resp>>
    /\ UNCHANGED emitVars
    /\ UNCHANGED poolVars
    /\ UNCHANGED loopVars
    /\ UNCHANGED hostVars
    /\ UNCHANGED bodyVars
    /\ UNCHANGED callVars
    /\ UNCHANGED isoVars

\* Server.Shutdown up to its select: the health status is set to
\* NOT_SERVING and GracefulStop is started in its own goroutine.
GrpcShutdownCall ==
    /\ Running
    /\ grpcPc = "spawned"
    /\ gracefulPc' = "running"
    /\ grpcPc' = "select"
    /\ UNCHANGED <<Draining, mainPc, httpPc, wg, httpStop, httpConns,
                   grpcStreams, ctxLeft, graceLeft, elapsed, openAtCheck, resp, logs>>
    /\ UNCHANGED ret
    /\ UNCHANGED emitVars
    /\ UNCHANGED poolVars
    /\ UNCHANGED loopVars
    /\ UNCHANGED hostVars
    /\ UNCHANGED bodyVars
    /\ UNCHANGED callVars
    /\ UNCHANGED isoVars

\* GracefulStop returns once no RPC is in progress; close(stopped).
GracefulStopReturns ==
    /\ Running
    /\ gracefulPc = "running"
    /\ grpcStreams = 0
    /\ gracefulPc' = "closed"
    /\ UNCHANGED <<Draining, mainPc, httpPc, grpcPc, wg, httpStop, httpConns,
                   grpcStreams, ctxLeft, graceLeft, elapsed, openAtCheck, resp, logs>>
    /\ UNCHANGED ret
    /\ UNCHANGED emitVars
    /\ UNCHANGED poolVars
    /\ UNCHANGED loopVars
    /\ UNCHANGED hostVars
    /\ UNCHANGED bodyVars
    /\ UNCHANGED callVars
    /\ UNCHANGED isoVars

\* Server.Shutdown: case <-stopped
GrpcShutdownStopped ==
    /\ Running
    /\ grpcPc = "select"
    /\ gracefulPc = "closed"
    /\ logs' = logs \cup {"grpc shutdown complete"}
    /\ ret' = [ret EXCEPT !.grpc = "nil"]
    /\ wg' = wg - 1
    /\ grpcPc' = "returned"
    /\ UNCHANGED <<Draining, mainPc, httpPc, gracefulPc, httpStop, httpConns,
                   grpcStreams, ctxLeft, graceLeft, elapsed, openAtCheck, resp>>
    /\ UNCHANGED emitVars
    /\ UNCHANGED poolVars
    /\ UNCHANGED loopVars
    /\ UNCHANGED hostVars
    /\ UNCHANGED bodyVars
    /\ UNCHANGED callVars
    /\ UNCHANGED isoVars

\* A timeout branch that does not call Stop().
GrpcStopMissing ==
    grpcStreams

\* grpcServer.Stop(): every connection and RPC in progress is closed; the
\* number of RPCs left in progress.
GrpcStop ==
    grpcStreams - grpcStreams

\* Server.Shutdown: case <-ctx.Done(); the goroutine of main logs the
\* returned error and calls wg.Done().
GrpcShutdownTimeout ==
    /\ Running
    /\ grpcPc = "select"
    /\ ContextDone
    /\ logs' = logs \cup {"grpc shutdown timeout, forcing", "grpc shutdown error"}
    /\ grpcStreams' = GrpcStop
    /\ ret' = [ret EXCEPT !.grpc = "DeadlineExceeded"]
    /\ wg' = wg - 1
    /\ grpcPc' = "returned"
    /\ UNCHANGED <<Draining, mainPc, httpPc, gracefulPc, httpStop, httpConns,
                   ctxLeft, graceLeft, elapsed, openAtCheck, resp>>
    /\ UNCHANGED emitVars
    /\ UNCHANGED poolVars
    /\ UNCHANGED loopVars
    /\ UNCHANGED hostVars
    /\ UNCHANGED bodyVars
    /\ UNCHANGED callVars
    /\ UNCHANGED isoVars

\* The time to the next expiry among the running timers (0: none runs).
NextExpiry ==
    LET grace == IF mainPc = "grace" /\ graceLeft > 0 THEN graceLeft ELSE 0
        ctx == IF ctxLeft > 0 THEN ctxLeft ELSE 0
    IN  IF grace > 0 /\ ctx > 0 THEN Min(grace, ctx)
        ELSE IF grace > 0 THEN grace
        ELSE ctx

\* Time passes up to the next expiry of a timer of the shutdown sequence:
\* the grace period sleep or the deadline of shutdownCtx.
Tick ==
    /\ Running
    /\ NextExpiry > 0
    /\ ctxLeft' = IF ctxLeft > 0 THEN ctxLeft - NextExpiry ELSE ctxLeft
    /\ graceLeft' = IF mainPc = "grace" /\ graceLeft > 0
                      THEN graceLeft - NextExpiry ELSE graceLeft
    /\ elapsed' = IF Draining THEN elapsed + NextExpiry ELSE elapsed
    /\ UNCHANGED <<Draining, mainPc, httpPc, grpcPc, gracefulPc, wg, httpStop,
                   httpConns, grpcStreams, openAtCheck, resp, logs>>
    /\ UNCHANGED ret
    /\ UNCHANGED emitVars
    /\ UNCHANGED poolVars
    /\ UNCHANGED loopVars
    /\ UNCHANGED hostVars
    /\ UNCHANGED bodyVars
    /\ UNCHANGED callVars
    /\ UNCHANGED isoVars

NextDrain ==
    \/ HttpConnOpen
    \/ HttpConnClose
    \/ \E route \in Routes : Handler(route)
    \/ GrpcStreamStart
    \/ GrpcStreamEnd
    \/ Signal
    \/ SetDraining
    \/ BeginShutdown
    \/ GraceOver
    \/ SpawnHTTPShutdown
    \/ SpawnGRPCShutdown
    \/ WaitDone
    \/ Exit
    \/ HttpShutdownCall
    \/ HttpShutdownReturn
    \/ GrpcShutdownCall
    \/ GracefulStopReturns
    \/ GrpcShutdownStopped
    \/ GrpcShutdownTimeout
    \/ Tick

SpecDrain ==
    Init /\ [][NextDrain]_vars

\* The shutdown sequence under the scheduling the runtime gives: the main
\* goroutine, the two shutdown goroutines and the GracefulStop goroutine
\* each take their next step when it stays possible, and time passes.
\* Nothing is assumed about clients: connections and RPCs may stay open
\* forever.
MainStep ==
    \/ SetDraining
    \/ BeginShutdown
    \/ GraceOver
    \/ SpawnHTTPShutdown
    \/ SpawnGRPCShutdown
    \/ WaitDone
    \/ Exit

HttpGoroutineStep ==
    \/ HttpShutdownCall
    \/ HttpShutdownReturn

GrpcGoroutineStep ==
    \/ GrpcShutdownCall
    \/ GrpcShutdownStopped
    \/ GrpcShutdownTimeout

FairDrain ==
    /\ SpecDrain
    /\ WF_vars(MainStep)
    /\ WF_vars(HttpGoroutineStep)
    /\ WF_vars(GrpcGoroutineStep)
    /\ WF_vars(GracefulStopReturns)
    /\ WF_vars(Tick)

(***************************************************************************)
(* Drain coordinator: observations and properties                          *)
(***************************************************************************)

\* A handler has produced a response while the drain flag was set.
HandledWhileDraining ==
    resp.route # "none" /\ resp.draining

\* C4: every HTTP handler invoked after the drain flag is set marks its
\* response Connection: close, whatever the route: the health and help
\* routes, the 400 responses of /bin and /chunked, the streaming endpoints.
C4_EveryHandlerMarksClose ==
    HandledWhileDraining => resp.close

\* C4, restricted to the handlers that reach SetConnectionHeader: those do
\* mark every response produced while the flag is set.
C4_HeaderSettingHandlersMarkClose ==
    (HandledWhileDraining /\ CallsSetConnectionHeader(resp.route)) => resp.close

\* The health route answered during the grace period, flag set, and left
\* the connection open.
C4_Witness ==
    /\ HandledWhileDraining
    /\ resp.route = "health"
    /\ mainPc = "grace"
    /\ ~resp.close

\* C5: the drain flag starts false, changes only from false to true, only
\* in the shutdown sequence's store that follows the termination signal,
\* and is never reset; so every read after the store returns true.
C5_DrainFlagOneWay ==
    /\ ~Draining
    /\ [][/\ Draining => Draining'
          /\ (~Draining /\ Draining') => (mainPc = "signalled" /\ mainPc' = "draining")
          /\ (resp' # resp /\ Draining) => resp'.draining]_vars

C5_Witness ==
    /\ Draining
    /\ HandledWhileDraining
    /\ mainPc = "exited"

\* C6: once the termination signal is received the shutdown sequence
\* reaches its stopped state, even when open connections and RPCs never
\* finish: the wait is bounded by the shutdown timeout.
C6_ShutdownTerminates ==
    (mainPc = "signalled") ~> (mainPc = "stopped")

C6_Witness ==
    /\ mainPc = "stopped"
    /\ httpConns > 0
    /\ ret.http = "DeadlineExceeded"
    /\ ret.grpc = "DeadlineExceeded"

\* One of the servers' shutdowns has been invoked (its goroutine started).
ShutdownInvoked ==
    httpPc # "none" \/ grpcPc # "none"

\* C7 as stated: the flag is set, then the fixed grace period elapses, then
\* the servers' shutdowns are invoked; neither is invoked before the grace
\* period has elapsed.
C7_GraceAlwaysBeforeShutdown ==
    ShutdownInvoked => (Draining /\ elapsed >= GracePeriod)

\* C7 as the code has it: the flag is set before either shutdown is
\* invoked, and the grace period elapses in between when the HTTP server
\* had open connections at the check that follows the store; with none
\* open, main does not sleep at all.
C7_GraceBeforeShutdownWhenConnsOpen ==
    /\ ShutdownInvoked => Draining
    /\ (ShutdownInvoked /\ openAtCheck > 0) => elapsed >= GracePeriod
    /\ mainPc = "grace" => openAtCheck > 0

C7_Witness ==
    /\ httpPc = "spawned"
    /\ grpcPc = "spawned"
    /\ openAtCheck > 0
    /\ elapsed = GracePeriod

\* C8: the HTTP and the gRPC shutdown run concurrently, neither waits for
\* the other, and the stopped state is reported only after both returned.
C8_ConcurrentShutdownsJoined ==
    /\ mainPc \in {"stopped", "exited"} =>
           (httpPc = "returned" /\ grpcPc = "returned")
    /\ "server stopped" \in logs =>
           (httpPc = "returned" /\ grpcPc = "returned")
    /\ mainPc = "spawnGRPC" => ENABLED SpawnGRPCShutdown
    /\ (Running /\ httpPc = "spawned") => ENABLED HttpShutdownCall
    /\ (Running /\ grpcPc = "spawned") => ENABLED GrpcShutdownCall

C8_Witness ==
    /\ httpPc = "shutting"
    /\ grpcPc = "select"
    /\ mainPc = "wait"

NextEmitDrain ==
    \/ NextEmit
    \/ Signal
    \/ SetDraining

SpecEmitDrain ==
    Init /\ [][NextEmitDrain]_vars

\* The step of a paced emission that starts producing a chunk.
StartsChunk ==
    /\ path = "chunked"
    /\ ~BulkMode(sw)
    /\ pc \in {"loop", "chunk"}
    /\ pc' = "inner"

\* The drain flag as the emission knows it: what the handler read.
ObservedDraining ==
    args.connClose

(***************************************************************************)
(* C18.  An in-progress paced-mode streaming response consults the drain  *)
(* flag before each chunk, so a flag set in the middle of the emission is *)
(* observed by the emission before its next chunk is produced.            *)
(***************************************************************************)
C18_PacedObservesFlagPerChunk ==
    [][(StartsChunk /\ Draining) => ObservedDraining]_vars

\* A paced emission went through all of its chunks, the later ones with
\* the flag set, on a response whose handler had read the flag as unset.
C18_Witness ==
    /\ path = "chunked"
    /\ sw.DelayMs > 0
    /\ pc = "done"
    /\ ~w.failed
    /\ loc.totalChunks > 1
    /\ loc.i = loc.totalChunks
    /\ Draining
    /\ ~ObservedDraining

(***************************************************************************)
(* Message loops: the bidirectional StreamEcho RPC and the WebSocket echo *)
(* connection, each a loop of receive and send that runs while main       *)
(* handles the termination signal.  rpc.flag and ws.flag hold the value   *)
(* the loop's code last loaded from the drain flag.                       *)
(***************************************************************************)
MaxMessages == 2

Payloads ==
    {<<>>, <<1>>}

MessageTypes ==
    {"TextMessage", "BinaryMessage"}

\* newEchoResponse: the request's message and timestamp are copied.
newEchoResponse(req) ==
    [Message |-> req.Message, RequestTimestamp |-> req.Timestamp]

\* logStreamInterceptor: the flag is loaded once, before the handler.
RpcStart ==
    /\ rpc.pc = "none"
    /\ rpc' = IF Draining
              THEN [rpc EXCEPT !.pc = "returned", !.flag = TRUE,
                               !.loads = @ + 1, !.err = "Unavailable"]
              ELSE [rpc EXCEPT !.pc = "recv", !.flag = FALSE,
                               !.loads = @ + 1]
    /\ UNCHANGED ws
    /\ UNCHANGED emitVars
    /\ UNCHANGED drainVars
    /\ UNCHANGED poolVars
    /\ UNCHANGED hostVars
    /\ UNCHANGED bodyVars
    /\ UNCHANGED callVars
    /\ UNCHANGED isoVars

\* StreamEcho: stream.Recv() gives a request, io.EOF or an error.
StreamRecv ==
    /\ rpc.pc = "recv"
    /\ \/ /\ rpc.recvs < MaxMessages
          /\ \E m \in Payloads :
                rpc' = [rpc EXCEPT !.pc = "send", !.recvs = @ + 1,
                                   !.req = [Message |-> m,
                                            Timestamp |-> rpc.recvs + 1]]
       \/ rpc' = [rpc EXCEPT !.pc = "returned", !.err = "nil"]
       \/ rpc' = [rpc EXCEPT !.pc = "returned", !.err = "recv"]
    /\ UNCHANGED ws
    /\ UNCHANGED emitVars
    /\ UNCHANGED drainVars
    /\ UNCHANGED poolVars
    /\ UNCHANGED hostVars
    /\ UNCHANGED bodyVars
    /\ UNCHANGED callVars
    /\ UNCHANGED isoVars

\* StreamEcho: stream.Send(newEchoResponse(req)), then the loop's head.
StreamSend ==
    /\ rpc.pc = "send"
    /\ \/ rpc' = [rpc EXCEPT !.pc = "recv",
                             !.sent = Append(@, newEchoResponse(rpc.req))]
       \/ rpc' = [rpc EXCEPT !.pc = "returned", !.err = "send"]
    /\ UNCHANGED ws
    /\ UNCHANGED emitVars
    /\ UNCHANGED drainVars
    /\ UNCHANGED poolVars
    /\ UNCHANGED hostVars
    /\ UNCHANGED bodyVars
    /\ UNCHANGED callVars
    /\ UNCHANGED isoVars

\* handleConnection: the connection is upgraded and the loop is entered.
WsConnect ==
    /\ ws.pc = "none"
    /\ ws' = [ws EXCEPT !.pc = "check"]
    /\ UNCHANGED rpc
    /\ UNCHANGED emitVars
    /\ UNCHANGED drainVars
    /\ UNCHANGED poolVars
    /\ UNCHANGED hostVars
    /\ UNCHANGED bodyVars
    /\ UNCHANGED callVars
    /\ UNCHANGED isoVars

\* websocket.FormatCloseMessage(websocket.CloseGoingAway, ...)
GoingAway(ok) ==
    [type |-> "CloseMessage", data |-> "CloseGoingAway", ok |-> ok]

\* shouldClose: the flag is loaded; if set the close frame is written
\* (the write's error is only logged) and the loop is left.
shouldClose ==
    /\ ws.pc = "check"
    /\ IF Draining
       THEN \E ok \in BOOLEAN :
               ws' = [ws EXCEPT !.pc = "disconnected", !.flag = TRUE,
                                !.checks = @ + 1,
                                !.frames = Append(@, GoingAway(ok))]
       ELSE ws' = [ws EXCEPT !.pc = "read", !.flag = FALSE,
                             !.checks = @ + 1]
    /\ UNCHANGED rpc
    /\ UNCHANGED emitVars
    /\ UNCHANGED drainVars
    /\ UNCHANGED poolVars
    /\ UNCHANGED hostVars
    /\ UNCHANGED bodyVars
    /\ UNCHANGED callVars
    /\ UNCHANGED isoVars

\* conn.ReadMessage(): a message of the peer, or an error that ends the loop.
ReadMessage ==
    /\ ws.pc = "read"
    /\ \/ /\ ws.reads < MaxMessages
          /\ \E t \in MessageTypes, m \in Payloads :
                ws' = [ws EXCEPT !.pc = "write", !.reads = @ + 1,
                                 !.msg = [type |-> t, data |-> m]]
       \/ ws' = [ws EXCEPT !.pc = "disconnected", !.reads = @ + 1]
    /\ UNCHANGED rpc
    /\ UNCHANGED emitVars
    /\ UNCHANGED drainVars
    /\ UNCHANGED poolVars
    /\ UNCHANGED hostVars
    /\ UNCHANGED bodyVars
    /\ UNCHANGED callVars
    /\ UNCHANGED isoVars

\* Where the loop continues after an echo with the check left out.
AfterEchoSkipsCheck ==
    "read"

\* Where the loop continues after an echo: at its head.
AfterEcho ==
    "check"

\* conn.WriteMessage(messageType, message): the echo.  The frame is
\* logged with the value the drain flag had when it was written.
WriteMessage ==
    /\ ws.pc = "write"
    /\ \/ ws' = [ws EXCEPT !.pc = AfterEcho,
                           !.frames = Append(@, [type |-> ws.msg.type,
                                                 data |-> ws.msg.data,
                                                 ok |-> TRUE,
                                                 draining |-> Draining])]
       \/ ws' = [ws EXCEPT !.pc = "disconnected",
                           !.frames = Append(@, [type |-> ws.msg.type,
                                                 data |-> ws.msg.data,
                                                 ok |-> FALSE,
                                                 draining |-> Draining])]
    /\ UNCHANGED rpc
    /\ UNCHANGED emitVars
    /\ UNCHANGED drainVars
    /\ UNCHANGED poolVars
    /\ UNCHANGED hostVars
    /\ UNCHANGED bodyVars
    /\ UNCHANGED callVars
    /\ UNCHANGED isoVars

NextLoops ==
    \/ Signal
    \/ SetDraining
    \/ RpcStart
    \/ StreamRecv
    \/ StreamSend
    \/ WsConnect
    \/ shouldClose
    \/ ReadMessage
    \/ WriteMessage

SpecLoops ==
    Init /\ [][NextLoops]_vars

\* The step in which StreamEcho takes a message to handle.
HandlesMessage ==
    /\ rpc.pc = "recv"
    /\ rpc'.pc = "send"

(***************************************************************************)
(* C19.  After the drain flag is set, an in-progress StreamEcho RPC       *)
(* observes the flag in its per-message loop before it handles its next   *)
(* message: no message is taken while the flag is set and the stream's    *)
(* last load of it gave false.                                            *)
(***************************************************************************)
C19_StreamObservesFlagPerMessage ==
    [][(HandlesMessage /\ Draining) => rpc.flag]_vars

\* The flag is set, and a stream that has echoed a message still waits
\* for input, its only load of the flag having given false.
C19_Witness ==
    /\ Draining
    /\ rpc.pc = "recv"
    /\ Len(rpc.sent) > 0
    /\ rpc.loads = 1
    /\ ~rpc.flag

\* The frames written so far end with the going-away close frame.
ClosedGoingAway ==
    /\ Len(ws.frames) > 0
    /\ ws.frames[Len(ws.frames)].type = "CloseMessage"
    /\ ws.frames[Len(ws.frames)].data = "CloseGoingAway"

(***************************************************************************)
(* C20.  In the WebSocket echo loop the drain flag is checked before      *)
(* every read: each call of ReadMessage follows a check of its own.  Once *)
(* a check has observed the flag set, the going-away close frame has been *)
(* written, the loop is left, and no later step reads or echoes.          *)
(***************************************************************************)
C20_CheckBeforeEveryReadThenClose ==
    /\ [](ws.reads <= ws.checks)
    /\ [](ws.pc = "read" => ws.checks = ws.reads + 1)
    /\ [](ws.pc = "write" => ws.checks = ws.reads)
    /\ [](ws.flag => (ws.pc = "disconnected" /\ ClosedGoingAway))
    /\ [][ws.flag => (ws'.reads = ws.reads /\ ws'.frames = ws.frames)]_vars

\* A connection that echoed a message was then closed by a check that
\* observed the flag.
C20_Witness ==
    /\ ws.flag
    /\ ws.pc = "disconnected"
    /\ ws.reads > 0
    /\ Len(ws.frames) > 1
    /\ ws.frames[1].ok
    /\ ClosedGoingAway

(***************************************************************************)
(* Emissions that are not aware of the drain flag                          *)
(***************************************************************************)
\* A bulk-mode emission has returned and none of its writes failed.
BulkCompleted ==
    /\ path = "chunked"
    /\ BulkMode(sw)
    /\ pc = "done"
    /\ NoWriteFailed

\* The transport's use of the body stream: Read until end-of-data or one
\* WriteTo, and no call on the reader after its cleanup.
TransportRead(lenp) ==
    /\ ~cleaned
    /\ ReaderRead(lenp)

TransportWriteTo ==
    /\ ~cleaned
    /\ ReaderWriteTo

\* Bulk-mode and known-length emissions while main handles the signal.
NextUnaware ==
    \/ \E t \in TotalSizes, c \in ChunkSizes : StreamResponse(t, c, 0, FALSE)
    \/ BodyStreamWriter
    \/ BulkWrite
    \/ BulkFlush
    \/ \E t \in TotalSizes : StreamResponseWithContentLength(t, bufferSize)
    \/ \E lenp \in 0..MaxReadLen : TransportRead(lenp)
    \/ TransportWriteTo
    \/ WriteToFull
    \/ WriteToTail
    \/ TransportStops
    \/ Signal
    \/ SetDraining

SpecUnaware ==
    Init /\ [][NextUnaware]_vars

\* An emission of the bulk or known-length kind has run to its end.
FlagUnawareCompleted ==
    BulkCompleted \/ PulledToEOF \/ HandedOffOnce

(***************************************************************************)
(* C21.  Setting the drain flag at any point of a bulk-mode or            *)
(* known-length emission neither truncates nor alters it: whatever the    *)
(* flag was and whenever it was set, a completed emission without write   *)
(* errors has written the byte sequence determined by total_size and the  *)
(* buffer alone, of length total_size.                                    *)
(***************************************************************************)
C21_DrainDoesNotAlterEmission ==
    FlagUnawareCompleted =>
        /\ w.out = WriteToOutput(sw.TotalSize)
        /\ sw.TotalSize >= 0 => Len(w.out) = sw.TotalSize

\* A bulk emission of several buffers completed although the flag was set
\* after the handler had read it as unset.
C21_Witness ==
    /\ BulkCompleted
    /\ Draining
    /\ ~args.connClose
    /\ sw.TotalSize > bufferSize
    /\ Len(w.out) = sw.TotalSize

\* A known-length emission pulled to end-of-data with the flag set.
C21_WitnessKnownLength ==
    /\ PulledToEOF
    /\ Draining
    /\ sw.TotalSize > bufferSize
    /\ Len(w.out) = sw.TotalSize

(***************************************************************************)
(* Abort on the first failure                                              *)
(***************************************************************************)
\* The sink operations of one call of StreamWriter.Write, or of the single
\* call of StreamWriter.WriteTo, are what the log holds.
OneEmissionLogged ==
    \/ path = "chunked"
    \/ path = "contentlength" /\ adapter.writeTos <= 1

\* Operation j of the log failed.
FailedAt(j) ==
    ~w.ops[j].ok

(***************************************************************************)
(* C22.  After the first failed write or failed per-chunk flush in        *)
(* StreamWriter.Write or StreamWriter.WriteTo the emission aborts at      *)
(* once: the failed operation is the last one performed on the sink (no   *)
(* further write, delay or flush, no retry) and the call has returned.    *)
(***************************************************************************)
C22_AbortOnFirstFailure ==
    OneEmissionLogged =>
        /\ \A j \in 1..Len(w.ops) : FailedAt(j) => j = Len(w.ops)
        /\ w.failed => pc \in {"done", "handedoff"}

\* A paced emission whose write failed before its last chunk: chunks,
\* delays and flushes were still due and none was performed.
C22_Witness ==
    /\ path = "chunked"
    /\ ~BulkMode(sw)
    /\ sw.DelayMs > 0
    /\ sw.FlushPerChunk
    /\ pc = "done"
    /\ Len(w.ops) > 2
    /\ w.ops[Len(w.ops)].op = "write"
    /\ FailedAt(Len(w.ops))
    /\ loc.i > 0
    /\ loc.i < loc.totalChunks - 1

\* A hand-off whose first full-buffer write failed with more to write.
C22_WitnessWriteTo ==
    /\ path = "contentlength"
    /\ pc = "handedoff"
    /\ adapter.writeTos = 1
    /\ Len(w.ops) = 1
    /\ FailedAt(1)
    /\ sw.TotalSize > bufferSize

(***************************************************************************)
(* The final flush of the paced mode                                       *)
(***************************************************************************)
\* A paced-mode call of StreamWriter.Write has returned and no write or
\* flush failed.
PacedCompleted ==
    /\ path = "chunked"
    /\ ~BulkMode(sw)
    /\ pc = "done"
    /\ ~w.failed

\* The number of flushes in the log.
FlushCount ==
    Cardinality({j \in 1..Len(w.ops) : w.ops[j].op = "flush"})

\* The log ends with the final flush: after the flushes of the chunks, if
\* any, one more flush, and nothing after it.
EndsWithFinalFlush ==
    /\ Len(w.ops) > 0
    /\ w.ops[Len(w.ops)].op = "flush"
    /\ FlushCount = (IF sw.FlushPerChunk THEN loc.i ELSE 0) + 1

(***************************************************************************)
(* C23.  Every paced-mode emission (delay > 0 or FlushPerChunk) in which  *)
(* no write or flush fails ends with one final flush of the sink after    *)
(* its last chunk, for every total_size >= 0, total_size = 0 included,    *)
(* with or without per-chunk flushing.                                     *)
(***************************************************************************)
C23_PacedEndsWithFinalFlush ==
    (PacedCompleted /\ sw.TotalSize >= 0) => EndsWithFinalFlush

\* The same for the emissions that have at least one chunk.
C23_FinalFlushWhenChunks ==
    (PacedCompleted /\ loc.totalChunks > 0) => EndsWithFinalFlush

\* A paced emission of total_size 0 returned without touching the sink.
C23_Witness ==
    /\ PacedCompleted
    /\ sw.TotalSize = 0
    /\ sw.DelayMs > 0
    /\ w.ops = <<>>

(***************************************************************************)
(* The shape of a bulk-mode emission                                       *)
(***************************************************************************)
\* The fast path of StreamWriter.Write is running or has returned.
BulkStarted ==
    /\ path = "chunked"
    /\ BulkMode(sw)
    /\ pc \in {"bulk", "done"}

\* Positions of the writes in the sink log.
WriteIndexes ==
    {j \in 1..Len(w.ops) : w.ops[j].op = "write"}

(***************************************************************************)
(* C24.  In bulk mode (delay = 0, FlushPerChunk = false) every write of   *)
(* StreamWriter.Write is a full buffer while remaining >= the buffer's    *)
(* capacity and otherwise the remainder, which makes at most one partial  *)
(* write, the last; there is at most one flush, it is the last operation  *)
(* and comes after all total_size bytes were written; an emission whose   *)
(* writes all succeed performs exactly one flush.                         *)
(***************************************************************************)
C24_BulkShape ==
    BulkStarted =>
        /\ \A j \in WriteIndexes :
              /\ w.ops[j].n = Min(bufferSize,
                                  sw.TotalSize - BytesIn(w.ops, j - 1))
              /\ w.ops[j].n < bufferSize =>
                    \A k \in WriteIndexes : k <= j
        /\ \A j \in 1..Len(w.ops) :
              w.ops[j].op = "flush" =>
                  /\ j = Len(w.ops)
                  /\ FlushCount = 1
                  /\ NoWriteFailed
                  /\ sw.TotalSize >= 0 =>
                        BytesIn(w.ops, j) = sw.TotalSize
        /\ w.ops # <<>> => w.ops[1].op \in {"write", "flush"}
        /\ SleepIndexes = {}
        /\ BulkCompleted => FlushCount = 1

\* Two full buffers, a partial one and the flush.
C24_Witness ==
    /\ BulkCompleted
    /\ bufferSize > 1
    /\ Len(w.ops) = 4
    /\ w.ops[1].n = bufferSize
    /\ w.ops[2].n = bufferSize
    /\ w.ops[3].op = "write"
    /\ w.ops[3].n < bufferSize
    /\ w.ops[4].op = "flush"

(***************************************************************************)
(* The content of a known-length emission                                  *)
(***************************************************************************)
\* The body stream is used on one path: pulled with Read alone, or handed
\* off with one WriteTo before any Read, and not called after its cleanup.
OnePathUse ==
    /\ path = "contentlength"
    /\ adapter.late = 0
    /\ \/ adapter.writeTos = 0
       \/ adapter.writeTos = 1 /\ sw.written = 0

\* Byte j (counted from 1) of the buffer content repeated in order.
BufferWrap(j) ==
    ChunkData[((j - 1) % bufferSize) + 1]

(***************************************************************************)
(* C25.  The output of a known-length emission is the buffer content      *)
(* repeated in order and truncated at total_size: byte j of the output    *)
(* (from 0) equals buffer[j mod capacity] at every moment of the          *)
(* emission, a completed emission has total_size bytes, and for           *)
(* total_size <= capacity the output is the cycling alphabet pattern      *)
(* truncated at total_size.                                               *)
(***************************************************************************)
C25_KnownLengthContent ==
    OnePathUse =>
        /\ \A j \in 1..Len(w.out) : w.out[j] = BufferWrap(j)
        /\ sw.TotalSize >= 0 => Len(w.out) <= sw.TotalSize
        /\ (PulledToEOF \/ HandedOffOnce) =>
              /\ sw.TotalSize >= 0 => Len(w.out) = sw.TotalSize
              /\ sw.TotalSize <= bufferSize =>
                    w.out = DataPattern(Len(w.out))

\* Two buffers and a partial one were pulled with Read.
C25_Witness ==
    /\ PulledToEOF
    /\ bufferSize = 3
    /\ sw.TotalSize = 7
    /\ w.out = <<0, 1, 2, 0, 1, 2, 0>>

(***************************************************************************)
(* Startup of main(): flags, validation of the buffer size, PID file,     *)
(* pprof, the gRPC server, the HTTP listener, the buffer pool and the     *)
(* HTTP server.  log.Fatalf ends the process (boot.pc = "fatal").  The    *)
(* flag is in KB; one KB is BytesPerKB bytes here (1024 in the source).   *)
(***************************************************************************)
MinBufferKB == 64

MaxBufferKB == 4096

BytesPerKB == 1

\* How far outside and inside the limits the flag's values are taken.
MaxOutside == 2

\* Values of the -buffer-size flag: around the lower limit, the upper limit
\* and above it, zero and negative.
BufferFlags ==
    {-1, 0}
      \cup ((MinBufferKB - MaxOutside)..(MinBufferKB + MaxOutside))
      \cup (MaxBufferKB..(MaxBufferKB + MaxOutside))

\* common.BinaryBufferPool before InitBinaryBufferPool: nil.
NilPool ==
    [chunks |-> <<>>, free |-> <<>>]

\* The state when flag.Parse has returned: nothing of the server exists.
InitStartup ==
    /\ bufferSize = 0
    /\ pc = "idle"
    /\ path = "none"
    /\ sw = [TotalSize |-> 0, ChunkSize |-> 0, DelayMs |-> 0,
             FlushPerChunk |-> FALSE, written |-> 0]
    /\ loc = NoLocals
    /\ w = [out |-> <<>>, ops |-> <<>>, failed |-> FALSE]
    /\ pool = [bufGets |-> 0, bufPuts |-> 0, swGets |-> 0, swPuts |-> 0]
    /\ cleaned = FALSE
    /\ args = NoArgs
    /\ adapter = NoCalls
    /\ InitDrain
    /\ BinaryBufferPool = NilPool
    /\ streams = [s \in Responses |-> NoStream]
    /\ InitLoops
    /\ \E kb \in BufferFlags : boot = [NotBooted EXCEPT !.kb = kb]
    /\ request = NoReq
    /\ InitIso
    /\ InitCalls
    /\ InitBody

\* A validation that lets every size through.
BufferSizeAlwaysValid(kb) ==
    TRUE

\* if *bufferSize < 64 || *bufferSize > 4096 { log.Fatalf(...) }
BufferSizeValid(kb) ==
    ~(kb < MinBufferKB \/ kb > MaxBufferKB)

\* What the startup steps leave alone.
StartupFrame ==
    /\ UNCHANGED <<pc, path, sw, loc, w, pool, cleaned, args, adapter>>
    /\ UNCHANGED drainVars
    /\ UNCHANGED streams
    /\ UNCHANGED loopVars
    /\ UNCHANGED bodyVars
    /\ UNCHANGED callVars
    /\ UNCHANGED isoVars
    /\ UNCHANGED request

ValidateBufferSize ==
    /\ boot.pc = "flags"
    /\ boot' = [boot EXCEPT
                   !.pc = IF BufferSizeValid(boot.kb) THEN "pidfile" ELSE "fatal"]
    /\ UNCHANGED <<bufferSize, BinaryBufferPool>>
    /\ StartupFrame

\* writePIDFile: an error is fatal.
WritePIDFile ==
    /\ boot.pc = "pidfile"
    /\ \E ok \in BOOLEAN :
          boot' = [boot EXCEPT !.pc = IF ok THEN "pprof" ELSE "fatal"]
    /\ UNCHANGED <<bufferSize, BinaryBufferPool>>
    /\ StartupFrame

\* if *pprofAddr != "" { go func() { http.ListenAndServe(...) }() }
StartPprof ==
    /\ boot.pc = "pprof"
    /\ \E enabled \in BOOLEAN :
          boot' = [boot EXCEPT !.pc = "grpc",
                               !.pprof = IF enabled THEN "spawned" ELSE "off"]
    /\ UNCHANGED <<bufferSize, BinaryBufferPool>>
    /\ StartupFrame

\* The pprof goroutine opens its listener.
PprofListen ==
    /\ boot.pprof = "spawned"
    /\ boot.pc # "fatal"
    /\ boot' = [boot EXCEPT !.pprof = "listening",
                            !.listeners = @ \cup {"pprof"}]
    /\ UNCHANGED <<bufferSize, BinaryBufferPool>>
    /\ StartupFrame

\* grpcSrv.Start(): net.Listen and a goroutine that serves; an error is
\* fatal.
GrpcStart ==
    /\ boot.pc = "grpc"
    /\ \/ boot' = [boot EXCEPT !.pc = "listen",
                               !.listeners = @ \cup {"grpc"}]
       \/ boot' = [boot EXCEPT !.pc = "fatal"]
    /\ UNCHANGED <<bufferSize, BinaryBufferPool>>
    /\ StartupFrame

\* A start that goes from the listener straight to the server.
AfterListenerSkipsPool ==
    "server"

\* The statement that follows the creation of the listener.
AfterListener ==
    "pool"

\* cfg.NewListener("tcp4", *addr): an error is fatal.
NewListener ==
    /\ boot.pc = "listen"
    /\ \/ boot' = [boot EXCEPT !.pc = AfterListener,
                               !.listeners = @ \cup {"http"}]
       \/ boot' = [boot EXCEPT !.pc = "fatal"]
    /\ UNCHANGED <<bufferSize, BinaryBufferPool>>
    /\ StartupFrame

\* common.InitBinaryBufferPool(bufferSizeBytes): the pattern, the pool and
\* PreWarm, which leaves one chunk stored.
InitBinaryBufferPool ==
    /\ boot.pc = "pool"
    /\ LET n == boot.kb * BytesPerKB
       IN  /\ bufferSize' = n
           /\ boot' = [boot EXCEPT !.pc = "server", !.inits = @ + 1,
                                   !.pattern = DataPattern(n)]
           /\ BinaryBufferPool' = [chunks |-> <<NewChunk(n)>>, free |-> <<1>>]
    /\ StartupFrame

\* server := NewServer(...); go func() { server.Serve(ln) }()
ServeHTTP ==
    /\ boot.pc = "server"
    /\ boot' = [boot EXCEPT !.pc = "serving"]
    /\ UNCHANGED <<bufferSize, BinaryBufferPool>>
    /\ StartupFrame

\* The gRPC server handles a call: it serves from its Start on.
GrpcRequest ==
    /\ "grpc" \in boot.listeners
    /\ boot.pc # "fatal"
    /\ "grpc" \notin boot.served
    /\ boot' = [boot EXCEPT !.served = @ \cup {"grpc"}]
    /\ UNCHANGED <<bufferSize, BinaryBufferPool>>
    /\ StartupFrame

\* The HTTP server hands a request to a streaming handler, whose first
\* step is BinaryBufferPool.Get(); on a nil pool that is a nil dereference.
StreamingRequest(s) ==
    /\ boot.pc = "serving"
    /\ streams[s].st = "idle"
    /\ IF BinaryBufferPool # NilPool
          THEN /\ Get(s, "writing")
               /\ boot' = [boot EXCEPT !.served = @ \cup {"http"}]
          ELSE /\ boot' = [boot EXCEPT !.served = @ \cup {"http"},
                                       !.nilGets = 1]
               /\ UNCHANGED <<BinaryBufferPool, streams>>
    /\ UNCHANGED emitVars
    /\ UNCHANGED drainVars
    /\ UNCHANGED loopVars
    /\ UNCHANGED bodyVars
    /\ UNCHANGED callVars
    /\ UNCHANGED isoVars
    /\ UNCHANGED request

NextStartup ==
    \/ ValidateBufferSize
    \/ WritePIDFile
    \/ StartPprof
    \/ PprofListen
    \/ GrpcStart
    \/ NewListener
    \/ InitBinaryBufferPool
    \/ ServeHTTP
    \/ GrpcRequest
    \/ \E s \in Responses : StreamingRequest(s)
    \/ \E s \in Responses : ChunkedReturn(s)

SpecStartup ==
    InitStartup /\ [][NextStartup]_vars

\* The configured buffer size in bytes.
BufferSizeBytes ==
    boot.kb * BytesPerKB

\* Byte i (counted from 0) of the alphabet A-Z then 0-9, cycling.
Alphabet(i) ==
    i % BasePatternLen

(***************************************************************************)
(* C26.  For every configured buffer size n the generated pattern has     *)
(* exactly n bytes, byte i being alphabet[i mod 36], and every buffer     *)
(* created by the pool has capacity n and content equal to that pattern.  *)
(***************************************************************************)
C26_PatternAndBuffers ==
    boot.inits > 0 =>
        /\ bufferSize = BufferSizeBytes
        /\ Len(boot.pattern) = BufferSizeBytes
        /\ \A i \in 0..(BufferSizeBytes - 1) :
              boot.pattern[i + 1] = Alphabet(i)
        /\ \A id \in 1..Len(BinaryBufferPool.chunks) :
              /\ Len(BinaryBufferPool.chunks[id]) = BufferSizeBytes
              /\ BinaryBufferPool.chunks[id] = boot.pattern

\* Two responses hold a buffer each, one created at warm-up and one
\* created by a Get that found nothing stored; the pattern is long enough
\* to have gone round the alphabet.
C26_Witness ==
    /\ boot.inits = 1
    /\ BufferSizeBytes > BasePatternLen
    /\ boot.pattern[BasePatternLen + 1] = 0
    /\ boot.pattern[BasePatternLen] = BasePatternLen - 1
    /\ Len(BinaryBufferPool.chunks) > 1
    /\ \A s \in Responses : streams[s].st = "writing"

(***************************************************************************)
(* C27.  When the configured buffer size is outside 64..4096 KB the       *)
(* process terminates at startup before the buffer pool is initialized,   *)
(* before any listener is opened and before any request is served.        *)
(***************************************************************************)
C27_InvalidBufferSizeIsFatal ==
    ~(boot.kb \in MinBufferKB..MaxBufferKB) =>
        /\ boot.pc \in {"flags", "fatal"}
        /\ boot.inits = 0
        /\ BinaryBufferPool = NilPool
        /\ boot.listeners = {}
        /\ boot.pprof = "off"
        /\ boot.served = {}

\* The process has ended on a size just above the upper limit.
C27_Witness ==
    /\ boot.kb = MaxBufferKB + 1
    /\ boot.pc = "fatal"
    /\ boot.listeners = {}

\* The process has ended on a size just below the lower limit.
C27_WitnessBelow ==
    /\ boot.kb = MinBufferKB - 1
    /\ boot.pc = "fatal"
    /\ boot.listeners = {}

\* Response s holds a buffer of the pool.
Acquired(s) ==
    streams[s].buf # 0

(***************************************************************************)
(* C28.  In every run the buffer pool is initialized at most once, and    *)
(* exactly once by the time the HTTP server starts serving, so that no    *)
(* streaming handler ever acquires from an uninitialized pool.            *)
(***************************************************************************)
C28_PoolInitializedOnceBeforeServing ==
    /\ boot.inits <= 1
    /\ boot.pc = "serving" => boot.inits = 1
    /\ "http" \in boot.served => boot.inits = 1
    /\ boot.nilGets = 0
    /\ \A s \in Responses : Acquired(s) => BinaryBufferPool # NilPool
    /\ boot.inits = 0 <=> BinaryBufferPool = NilPool

\* A streaming handler holds a buffer of the pool initialized at startup.
C28_Witness ==
    /\ boot.pc = "serving"
    /\ boot.inits = 1
    /\ "http" \in boot.served
    /\ \E s \in Responses : Acquired(s)

(***************************************************************************)
(* The endpoint layer: the handlers of /chunked/{count} and /bin/{size}.  *)
(* The transport hands over a request (Request); the handler answers 400  *)
(* (pc = "badrequest") or calls StreamResponse or                         *)
(* StreamResponseWithContentLength.  Go's int is 64 bits wide.            *)
(***************************************************************************)
\* parseSize is followed at its own width: the least at which, with the
\* scaled Kilo, its four multipliers are representable, as 1024^4 is in
\* int64.
SizeBits ==
    IntBits + 2

MaxSize ==
    Pow2(SizeBits - 1) - 1

MinSize ==
    0 - Pow2(SizeBits - 1)

SizeInt(x) ==
    ((x - MinSize) % Pow2(SizeBits)) + MinSize

\* strconv.ParseInt(s, 10, 64) and strconv.Atoi(s) at a width given by its
\* least and greatest value: an error for text that is no number or is
\* out of range.
ParseInt(tok, lo, hi) ==
    IF tok.kind = "number" /\ tok.n >= lo /\ tok.n <= hi
      THEN [ok |-> TRUE, n |-> tok.n]
      ELSE [ok |-> FALSE, n |-> 0]

\* A query parameter taken whenever it parses, whatever its sign.
GetIntQueryParamAnySign(tok, defaultValue) ==
    IF tok.kind # "missing" /\ ParseInt(tok, MinInt64, MaxInt64).ok
      THEN ParseInt(tok, MinInt64, MaxInt64).n
      ELSE defaultValue

\* GetIntQueryParam: the parsed value if valid and positive, else the
\* default.
GetIntQueryParam(tok, defaultValue) ==
    IF tok.kind # "missing"
         /\ ParseInt(tok, MinInt64, MaxInt64).ok
         /\ ParseInt(tok, MinInt64, MaxInt64).n > 0
      THEN ParseInt(tok, MinInt64, MaxInt64).n
      ELSE defaultValue

\* The default chunk size of /chunked (1024 in the source, scaled).
defaultChunkSize == 2

\* parseChunkCount: only positive integers are accepted.
parseChunkCount(tok) ==
    IF tok.kind = "missing"
      THEN [err |-> "strEmptyCount", count |-> 0]
    ELSE IF ~ParseInt(tok, MinInt64, MaxInt64).ok
              \/ ParseInt(tok, MinInt64, MaxInt64).n <= 0
      THEN [err |-> "strInvalid", count |-> 0]
    ELSE [err |-> "nil", count |-> ParseInt(tok, MinInt64, MaxInt64).n]

\* One kilobyte of the size suffixes (1024 in the source, scaled).
Kilo == 2

\* The switch on the last character: 0 for a character that is no suffix.
Multiplier(suffix) ==
    IF suffix \in {"K", "k"} THEN Kilo
    ELSE IF suffix \in {"M", "m"} THEN Kilo * Kilo
    ELSE IF suffix \in {"G", "g"} THEN Kilo * Kilo * Kilo
    ELSE IF suffix \in {"T", "t"} THEN Kilo * Kilo * Kilo * Kilo
    ELSE 0

\* commonSizes: the pre-cached sizes (those of prefix 1 here).
commonSizes ==
    [str \in {SizeString(Number(1), x) : x \in {"K", "k", "M", "m", "G", "g"}}
        |-> IF str.suffix \in {"K", "k"} THEN 1 * Kilo
            ELSE IF str.suffix \in {"M", "m"} THEN 1 * Kilo * Kilo
            ELSE 1 * Kilo * Kilo * Kilo]

\* parseSize: the size, or the error text.
parseSize(str) ==
    IF str.num.kind = "missing" /\ str.suffix = ""
      THEN [err |-> "strEmptySize", size |-> 0]
    ELSE IF str \in DOMAIN commonSizes
      THEN [err |-> "nil", size |-> commonSizes[str]]
    ELSE IF str.num.kind # "missing" /\ Multiplier(str.suffix) > 0
      THEN IF ParseInt(str.num, MinSize, MaxSize).ok
                /\ ParseInt(str.num, MinSize, MaxSize).n > 0
             THEN [err |-> "nil",
                   size |-> SizeInt(ParseInt(str.num, MinSize, MaxSize).n
                                      * Multiplier(str.suffix))]
             ELSE [err |-> "strInvalid", size |-> 0]
    ELSE IF str.suffix = ""
              /\ ParseInt(str.num, MinSize, MaxSize).ok
              /\ ParseInt(str.num, MinSize, MaxSize).n > 0
      THEN [err |-> "nil", size |-> ParseInt(str.num, MinSize, MaxSize).n]
    ELSE [err |-> "strInvalid", size |-> 0]

\* Texts of a path segment or query parameter: nothing, no number, and the
\* numbers of the integer range and one beyond at each end.
Tokens ==
    {Missing, NotANumber} \cup {Number(n) : n \in (MinInt64 - 1)..(MaxInt64 + 1)}

DelayTokens ==
    {Missing, NotANumber} \cup {Number(n) : n \in -1..MaxDelayMs}

Suffixes ==
    {"", "K", "k", "M", "m", "G", "g", "T", "t", "X"}

\* The size strings of /bin/ requests: those whose size, when accepted,
\* is one the emission group represents.
SizeStrings ==
    {str \in {SizeString(num, x) :
                 num \in {Missing, NotANumber}
                           \cup {Number(n) : n \in (MinSize - 1)..(MaxSize + 1)},
                 x \in Suffixes} :
        parseSize(str).size \in TotalSizes}

\* The router hands a request to the handler of /chunked/ or of /bin/.
Request ==
    /\ pc = "idle"
    /\ request = NoReq
    /\ \/ \E c \in Tokens, z \in Tokens, d \in DelayTokens :
             request' = [NoReq EXCEPT !.handler = "chunked", !.count = c,
                                      !.size = z, !.delay = d]
       \/ \E str \in SizeStrings, ch \in BOOLEAN :
             request' = [NoReq EXCEPT !.handler = "bin", !.binSize = str,
                                      !.chunked = ch]
    /\ UNCHANGED boot
    /\ UNCHANGED emitVars
    /\ UNCHANGED drainVars
    /\ UNCHANGED poolVars
    /\ UNCHANGED loopVars
    /\ UNCHANGED bodyVars
    /\ UNCHANGED callVars
    /\ UNCHANGED isoVars

\* A handler that takes the buffer and the StreamWriter before it
\* validates, and answers 400 holding them.
BadRequestAfterAcquire ==
    /\ pc' = "badrequest"
    /\ pool' = [pool EXCEPT !.bufGets = @ + 1, !.swGets = @ + 1]
    /\ UNCHANGED <<bufferSize, path, sw, loc, w, cleaned, args, adapter>>
    /\ UNCHANGED drainVars
    /\ UNCHANGED poolVars
    /\ UNCHANGED loopVars
    /\ UNCHANGED hostVars
    /\ UNCHANGED bodyVars
    /\ UNCHANGED callVars
    /\ UNCHANGED isoVars

\* The handler answers 400 Bad Request and returns.
BadRequest ==
    /\ pc' = "badrequest"
    /\ UNCHANGED <<bufferSize, path, sw, loc, w, pool, cleaned, args, adapter>>
    /\ UNCHANGED drainVars
    /\ UNCHANGED poolVars
    /\ UNCHANGED loopVars
    /\ UNCHANGED hostVars
    /\ UNCHANGED bodyVars
    /\ UNCHANGED callVars
    /\ UNCHANGED isoVars

\* chunked.Handler
ChunkedHandler ==
    /\ pc = "idle"
    /\ request.handler = "chunked"
    /\ LET c == parseChunkCount(request.count)
           chunkSize == GetIntQueryParam(request.size, defaultChunkSize)
           delayMs == GetIntQueryParam(request.delay, 0)
           totalSize == Int64(c.count * chunkSize)
       IN  IF c.err # "nil"
             THEN BadRequest
             ELSE StreamResponse(totalSize, chunkSize, delayMs, TRUE)

\* binary.Handler
BinaryHandler ==
    /\ pc = "idle"
    /\ request.handler = "bin"
    /\ LET r == parseSize(request.binSize)
           chunkSize == bufferSize
       IN  IF r.err # "nil"
             THEN BadRequest
           ELSE IF request.chunked
             THEN StreamResponse(r.size, chunkSize, 0, FALSE)
             ELSE StreamResponseWithContentLength(r.size, chunkSize)

NextHandlers ==
    \/ Request
    \/ ChunkedHandler
    \/ BinaryHandler

SpecHandlers ==
    Init /\ [][NextHandlers]_vars

\* The handler has called the emitter.
EmitterInvoked ==
    /\ request.handler \in {"chunked", "bin"}
    /\ pc \in {"registered", "reader"}

\* The chunk size and the total size the emitter was invoked with.
PassedChunkSize ==
    IF path = "chunked" THEN args.chunkSize ELSE sw.ChunkSize

PassedTotalSize ==
    IF path = "chunked" THEN args.totalSize ELSE sw.TotalSize

(***************************************************************************)
(* C29.  The emitter is never invoked with chunk_size <= 0: for every     *)
(* request accepted by /bin and /chunked, whatever the size parameter     *)
(* (missing, zero, negative, non-numeric, out of range), the chunk size   *)
(* passed to StreamResponse / StreamResponseWithContentLength is          *)
(* strictly positive.                                                      *)
(***************************************************************************)
C29_ChunkSizePositive ==
    EmitterInvoked => PassedChunkSize > 0

\* An accepted /chunked request whose size parameter was zero.
C29_Witness ==
    /\ EmitterInvoked
    /\ request.handler = "chunked"
    /\ request.size = Number(0)
    /\ PassedChunkSize = defaultChunkSize

\* An accepted /chunked request whose size parameter was negative.
C29_WitnessNegative ==
    /\ EmitterInvoked
    /\ request.handler = "chunked"
    /\ request.size = Number(-1)
    /\ PassedChunkSize = defaultChunkSize

\* /bin/{size} was accepted: parseSize returned no error and the emitter
\* was invoked with its result.
BinAccepted ==
    /\ request.handler = "bin"
    /\ pc \in {"registered", "reader"}

\* /bin/{size} was answered 400: parseSize returned an error.
BinRejected ==
    /\ request.handler = "bin"
    /\ pc = "badrequest"

\* The size a string denotes: its decimal prefix times the suffix's
\* multiplier (1 without suffix), as a number without width.
Denoted(str) ==
    str.num.n * (IF str.suffix = "" THEN 1 ELSE Multiplier(str.suffix))

\* The request's size string is a positive decimal number of the integer
\* range, alone or followed by one of the suffixes K, M, G, T.
WellFormed(str) ==
    /\ str.num.kind = "number"
    /\ str.num.n > 0
    /\ str.num.n <= MaxSize
    /\ str.suffix = "" \/ Multiplier(str.suffix) > 0

(***************************************************************************)
(* C30.  parseSize returns either an error or a strictly positive size,   *)
(* which for a decimal prefix n > 0 with suffix K/M/G/T is exactly        *)
(* n*1024^k and for a bare positive decimal is that number; no input,     *)
(* prefixes whose product exceeds the signed range included, yields a     *)
(* non-positive or wrapped size without an error.                         *)
(***************************************************************************)
C30_ParseSizePositiveOrError ==
    BinAccepted =>
        /\ PassedTotalSize > 0
        /\ PassedTotalSize = Denoted(request.binSize)

\* The inputs that must give an error do: empty, zero, negative, text,
\* unknown suffix, suffix alone; and every accepted input is well formed.
C30_MalformedRejected ==
    /\ BinAccepted => WellFormed(request.binSize)
    /\ (BinRejected \/ BinAccepted) =>
          (~WellFormed(request.binSize) => BinRejected)

\* The result is exact whenever the product is within the signed range.
C30_ExactWhenInRange ==
    (BinAccepted /\ Denoted(request.binSize) <= MaxSize) =>
        /\ PassedTotalSize > 0
        /\ PassedTotalSize = Denoted(request.binSize)

\* An accepted size string whose product left the signed range: the
\* emitter was invoked with a size that is not positive.
C30_Witness ==
    /\ BinAccepted
    /\ WellFormed(request.binSize)
    /\ Denoted(request.binSize) > MaxSize
    /\ PassedTotalSize <= 0

\* /chunked/{count} was accepted: parseChunkCount returned no error and
\* StreamResponse was invoked.
ChunkedAccepted ==
    /\ request.handler = "chunked"
    /\ pc = "registered"

\* The count and the chunk size of the accepted request, as numbers
\* without width.
AcceptedCount ==
    request.count.n

AcceptedSize ==
    IF request.size.kind = "number" /\ request.size.n > 0
                                    /\ request.size.n <= MaxInt64
      THEN request.size.n
      ELSE defaultChunkSize

(***************************************************************************)
(* C31.  For every accepted /chunked/{count} request with positive count  *)
(* and chunk size (the default when the size parameter is absent), the    *)
(* total size handed to the emitter is exactly count * size, for all      *)
(* positive count and size values the endpoint accepts.                   *)
(***************************************************************************)
C31_TotalIsCountTimesSize ==
    ChunkedAccepted =>
        /\ AcceptedCount > 0
        /\ PassedChunkSize = AcceptedSize
        /\ PassedTotalSize = AcceptedCount * AcceptedSize

\* The total is exact whenever the product is within the integer range.
C31_ExactWhenInRange ==
    (ChunkedAccepted /\ AcceptedCount * AcceptedSize <= MaxInt64) =>
        /\ AcceptedCount > 0
        /\ PassedChunkSize = AcceptedSize
        /\ PassedTotalSize = AcceptedCount * AcceptedSize

\* An accepted request whose product left the integer range: the emitter
\* was handed a total that is not count * size.
C31_Witness ==
    /\ ChunkedAccepted
    /\ AcceptedCount > 0
    /\ AcceptedCount * AcceptedSize > MaxInt64
    /\ PassedTotalSize # AcceptedCount * AcceptedSize

\* An accepted request without size parameter: the default chunk size.
C31_WitnessDefault ==
    /\ ChunkedAccepted
    /\ request.size = Missing
    /\ PassedTotalSize = AcceptedCount * defaultChunkSize

\* The handler of the request has returned.
HandlerReturned ==
    /\ request # NoReq
    /\ pc # "idle"

\* The request's chunk count (/chunked) or size (/bin) is missing, empty
\* or invalid: no positive decimal number of the integer range, alone or,
\* for /bin, followed by one of the suffixes.
InvalidRequest ==
    \/ /\ request.handler = "chunked"
       /\ ~(request.count.kind = "number" /\ request.count.n > 0
                                          /\ request.count.n <= MaxInt64)
    \/ /\ request.handler = "bin"
       /\ ~WellFormed(request.binSize)

\* No emission was started: nothing was taken from the pools, no adapter
\* was registered and nothing reached the sink.
NoEmissionStarted ==
    /\ pool.bufGets = 0
    /\ pool.swGets = 0
    /\ path = "none"
    /\ sw = AcquireStreamWriter(0, 0, 0, FALSE)
    /\ args = NoArgs
    /\ w.ops = <<>>
    /\ w.out = <<>>

(***************************************************************************)
(* C32.  A /bin or /chunked request with a missing, empty or invalid size *)
(* or chunk count is answered with status 400 and starts no emission: no  *)
(* buffer and no emitter is acquired from the pools for a rejected         *)
(* request.                                                                *)
(***************************************************************************)
C32_RejectedStartsNoEmission ==
    /\ (HandlerReturned /\ InvalidRequest) => pc = "badrequest"
    /\ pc = "badrequest" => NoEmissionStarted

\* A /chunked request with a count of zero was answered 400.
C32_Witness ==
    /\ HandlerReturned
    /\ request.handler = "chunked"
    /\ request.count = Number(0)
    /\ pc = "badrequest"
    /\ NoEmissionStarted

\* A /bin request with an unknown suffix was answered 400.
C32_WitnessBin ==
    /\ HandlerReturned
    /\ request.handler = "bin"
    /\ request.binSize = SizeString(Number(1), "X")
    /\ pc = "badrequest"
    /\ NoEmissionStarted

\* A /chunked request without count was answered 400.
C32_WitnessMissing ==
    /\ HandlerReturned
    /\ request.handler = "chunked"
    /\ request.count = Missing
    /\ pc = "badrequest"
    /\ NoEmissionStarted

(***************************************************************************)
(* The StreamWriters shared by concurrent responses.                      *)
(* streamWriterPool.objs[o] holds the fields of the o-th StreamWriter     *)
(* created and the response that last read or wrote them (by);            *)
(* streamWriterPool.free[o] tells how many times the pool stores it.  A   *)
(* response refers to its StreamWriter and chunk by readers[s].sw and     *)
(* readers[s].chunkData, as the closure and the autoCleanupReader do, and *)
(* keeps the references after it has put both back.                       *)
(***************************************************************************)
\* streamWriterPool.Get() finds the stored StreamWriter o, or calls New
\* (o is then the next one created).
TakeWriter(wp, o) ==
    IF o <= Len(wp.objs)
      THEN [wp EXCEPT !.free[o] = @ - 1]
      ELSE [wp EXCEPT !.objs = Append(@, [TotalSize |-> 0, written |-> 0,
                                          ChunkData |-> 0, by |-> 0]),
                      !.free = Append(@, 0)]

\* The StreamWriters a Get may return: the stored ones, and a new one
\* made by New when nothing is stored.
Gettable(wp) ==
    {o \in 1..Len(wp.objs) : wp.free[o] > 0}
      \cup (IF \A o \in 1..Len(wp.objs) : wp.free[o] = 0
              THEN {Len(wp.objs) + 1}
              ELSE {})

\* The chunks a BinaryBufferPool.Get may return, likewise.
GettableChunks(bp) ==
    {id \in 1..Len(bp.chunks) : bp.free[id] > 0}
      \cup (IF PoolEmpty(bp) THEN {Len(bp.chunks) + 1} ELSE {})

TakeChunk(bp, id) ==
    IF id <= Len(bp.chunks) THEN PoolTake(bp, id) ELSE PoolNew(bp)

\* AcquireStreamWriter and the caller's field assignments, by response s.
Acquire(wp, o, s, totalSize, chunkData) ==
    [TakeWriter(wp, o) EXCEPT
        !.objs[o] = [TotalSize |-> totalSize, written |-> 0,
                     ChunkData |-> chunkData, by |-> s]]

\* streamWriterPool.Put(sw)
PutWriter(wp, o) ==
    [wp EXCEPT !.free[o] = @ + 1]

\* StreamWriter.Read on the fields e with a slice of lenp bytes.
EmitterRead(e, lenp) ==
    IF e.written >= e.TotalSize
      THEN [n |-> 0, written |-> e.written, eof |-> TRUE]
      ELSE LET remaining == e.TotalSize - e.written
               offset == e.written % bufferSize
               available == bufferSize - offset
               toWrite == Min(Min(lenp, remaining), available)
           IN  [n |-> toWrite, written |-> e.written + toWrite, eof |-> FALSE]

\* Total sizes of the responses of this group, and the lengths of the
\* slices their readers are called with.
IsoTotals ==
    1..MaxIsoTotal

\* The frame of the actions of this group.
IsoFrame ==
    /\ UNCHANGED emitVars
    /\ UNCHANGED drainVars
    /\ UNCHANGED streams
    /\ UNCHANGED loopVars
    /\ UNCHANGED hostVars
    /\ UNCHANGED bodyVars
    /\ UNCHANGED callVars

\* StreamResponseWithContentLength: the handler takes a chunk and a
\* StreamWriter and hands the reader to the transport.
IsoKnownStart(s) ==
    /\ readers[s].st = "idle"
    /\ \E id \in GettableChunks(BinaryBufferPool),
          o \in Gettable(streamWriterPool), total \in IsoTotals :
          /\ BinaryBufferPool' = TakeChunk(BinaryBufferPool, id)
          /\ streamWriterPool' = Acquire(streamWriterPool, o, s, total, id)
          /\ readers' = [readers EXCEPT
                            ![s] = [NoReader EXCEPT !.st = "reading",
                                                    !.sw = o,
                                                    !.chunkData = id]]
    /\ IsoFrame

\* StreamResponse's closure starts: it takes a chunk and a StreamWriter.
IsoChunkedStart(s) ==
    /\ readers[s].st = "idle"
    /\ \E id \in GettableChunks(BinaryBufferPool),
          o \in Gettable(streamWriterPool), total \in IsoTotals :
          /\ BinaryBufferPool' = TakeChunk(BinaryBufferPool, id)
          /\ streamWriterPool' = Acquire(streamWriterPool, o, s, total, id)
          /\ readers' = [readers EXCEPT
                            ![s] = [NoReader EXCEPT !.st = "writing",
                                                    !.sw = o,
                                                    !.chunkData = id]]
    /\ IsoFrame

\* sw.Write(w) runs to its return: the deferred streamWriterPool.Put(sw),
\* then the closure's deferred BinaryBufferPool.Put(chunkData).
IsoChunkedReturn(s) ==
    /\ readers[s].st = "writing"
    /\ LET o == readers[s].sw
           touched == [streamWriterPool EXCEPT !.objs[o].by = s]
       IN  streamWriterPool' = PutWriter(touched, o)
    /\ BinaryBufferPool' = PoolPut(BinaryBufferPool, readers[s].chunkData)
    /\ readers' = [readers EXCEPT ![s] = NoReader]
    /\ IsoFrame

\* The transport may call the reader: always before its cleanup, and
\* MaxLateCalls times in all afterwards.
IsoCallable(s) ==
    \/ readers[s].st = "reading"
    \/ /\ readers[s].st = "released"
       /\ streamWriterPool.lateCalls < MaxLateCalls

\* The count of the calls made on readers that had cleaned up.
CountLate(wp, s) ==
    IF readers[s].st = "released"
      THEN [wp EXCEPT !.lateCalls = @ + 1]
      ELSE wp

\* r.sw.Read / r.sw.WriteTo: the call reads the fields of the StreamWriter
\* the reader refers to, and Read advances its cursor.
Touch(wp, o, s, written) ==
    [wp EXCEPT !.objs[o].written = written, !.objs[o].by = s]

\* autoCleanupReader.Read
IsoRead(s) ==
    /\ IsoCallable(s)
    /\ \E lenp \in IsoTotals :
          LET o == readers[s].sw
              r == EmitterRead(streamWriterPool.objs[o], lenp)
              after == Touch(CountLate(streamWriterPool, s), o, s, r.written)
          IN  IF r.eof /\ ~readers[s].cleaned
                THEN /\ streamWriterPool' = PutWriter(after, o)
                     /\ BinaryBufferPool' =
                           PoolPut(BinaryBufferPool, readers[s].chunkData)
                     /\ readers' = [readers EXCEPT ![s].st = "released",
                                                   ![s].cleaned = TRUE]
                ELSE /\ streamWriterPool' = after
                     /\ UNCHANGED BinaryBufferPool
                     /\ readers' = [readers EXCEPT ![s].pulled = @ + r.n]
    /\ IsoFrame

\* autoCleanupReader.WriteTo
IsoWriteTo(s) ==
    /\ IsoCallable(s)
    /\ LET o == readers[s].sw
           after == Touch(CountLate(streamWriterPool, s), o, s,
                          streamWriterPool.objs[o].written)
       IN  IF ~readers[s].cleaned
             THEN /\ streamWriterPool' = PutWriter(after, o)
                  /\ BinaryBufferPool' =
                        PoolPut(BinaryBufferPool, readers[s].chunkData)
                  /\ readers' = [readers EXCEPT ![s].st = "released",
                                                ![s].cleaned = TRUE]
             ELSE /\ streamWriterPool' = after
                  /\ UNCHANGED BinaryBufferPool
                  /\ UNCHANGED readers
    /\ IsoFrame

\* The response is over and its reader unreachable: s serves a new request.
IsoDropped(s) ==
    /\ readers[s].st = "released"
    /\ readers' = [readers EXCEPT ![s] = NoReader]
    /\ UNCHANGED streamWriterPool
    /\ UNCHANGED BinaryBufferPool
    /\ IsoFrame

NextIsolation ==
    \/ \E s \in Responses : IsoKnownStart(s)
    \/ \E s \in Responses : IsoChunkedStart(s)
    \/ \E s \in Responses : IsoChunkedReturn(s)
    \/ \E s \in Responses : IsoRead(s)
    \/ \E s \in Responses : IsoWriteTo(s)
    \/ \E s \in Responses : IsoDropped(s)

SpecIsolation ==
    Init /\ [][NextIsolation]_vars

\* Response s has its emitter: acquired and not yet put back.
HasEmitter(s) ==
    readers[s].st \in {"reading", "writing"}

\* The emitter of response s.
EmitterOf(s) ==
    streamWriterPool.objs[readers[s].sw]

\* The emitter of response s is as s itself left it: s was the last to
\* read or write its fields, its cursor counts the bytes s has pulled, and
\* its buffer reference is the chunk s took.
Untouched(s) ==
    /\ EmitterOf(s).by = s
    /\ EmitterOf(s).written = readers[s].pulled
    /\ EmitterOf(s).ChunkData = readers[s].chunkData

(***************************************************************************)
(* C33.  Under any interleaving of concurrent streams and any sequence of *)
(* Read/WriteTo calls on each stream's adapter, concurrent streams do not *)
(* interact: the cursor, total size and buffer reference of one stream's  *)
(* emitter are never read or modified by another stream's operations.     *)
(***************************************************************************)
C33_StreamsDoNotInteract ==
    \A s \in Responses : HasEmitter(s) => Untouched(s)

\* As long as no reader is called after its cleanup, the streams do not
\* interact.
C33_IsolatedWithoutLateCalls ==
    streamWriterPool.lateCalls = 0 => C33_StreamsDoNotInteract

\* No two responses have the same emitter or the same chunk at a time.
C33_EmittersExclusive ==
    streamWriterPool.lateCalls = 0 =>
        \A s \in Responses, t \in Responses :
            (s # t /\ HasEmitter(s) /\ HasEmitter(t)) =>
                /\ readers[s].sw # readers[t].sw
                /\ readers[s].chunkData # readers[t].chunkData

\* A response that has pulled nothing finds its cursor advanced: another
\* response's reader, called after its cleanup, read through the
\* StreamWriter it had put back.
C33_Witness ==
    \E s \in Responses, t \in Responses :
        /\ s # t
        /\ HasEmitter(s)
        /\ readers[s].pulled = 0
        /\ EmitterOf(s).written > 0
        /\ EmitterOf(s).by = t
        /\ readers[t].st = "released"
        /\ readers[t].sw = readers[s].sw

\* StreamWriter.Write runs, or has run, in paced mode.
PacedStarted ==
    /\ path = "chunked"
    /\ ~BulkMode(sw)
    /\ pc \in {"loop", "chunk", "inner", "done"}

\* The position in the sink log of the last entry before j that is no
\* write (0 when there is none): the chunk of entry j starts after it.
RECURSIVE ChunkStart(_, _)
ChunkStart(ops, j) ==
    IF j = 0 THEN 0
    ELSE IF ops[j].op # "write" THEN j
    ELSE ChunkStart(ops, j - 1)

\* The bytes of the writes at positions lo+1..hi of the sink log.
RECURSIVE WrittenBetween(_, _, _)
WrittenBetween(ops, lo, hi) ==
    IF hi <= lo THEN 0
    ELSE WrittenBetween(ops, lo, hi - 1)
           + (IF ops[hi].op = "write" THEN ops[hi].n ELSE 0)

\* min(chunk_size, remaining) of the chunk that the write at position j of
\* the sink log belongs to.
ChunkTarget(ops, j) ==
    Min(sw.ChunkSize,
        sw.TotalSize - WrittenBetween(ops, 0, ChunkStart(ops, j - 1)))

\* The bytes the chunk of the write at position j has got up to that
\* write.
ChunkSoFar(ops, j) ==
    WrittenBetween(ops, ChunkStart(ops, j - 1), j)

\* What the sink holds when every write started at offset 0 of the
\* buffer.
RECURSIVE FromOffsetZero(_)
FromOffsetZero(ops) ==
    IF ops = <<>> THEN <<>>
    ELSE (IF Head(ops).op = "write"
            THEN Slice(ChunkData, 0, Head(ops).n)
            ELSE <<>>) \o FromOffsetZero(Tail(ops))

(***************************************************************************)
(* C34.  In paced mode with chunk_size greater than the buffer capacity,  *)
(* each chunk is written as consecutive sub-writes that each start at     *)
(* buffer offset 0 and are at most capacity bytes long, their lengths sum *)
(* to exactly min(chunk_size, remaining), and the per-chunk flush happens *)
(* only after the last sub-write of the chunk, never between sub-writes.  *)
(***************************************************************************)
C34_SubWritesOfAChunk ==
    PacedStarted =>
        /\ \A j \in 1..Len(w.ops) :
              /\ w.ops[j].op = "write" =>
                    /\ w.ops[j].n >= 1
                    /\ w.ops[j].n <= bufferSize
                    /\ ChunkSoFar(w.ops, j) <= ChunkTarget(w.ops, j)
              /\ (w.ops[j].op # "write" /\ j > 1 /\ w.ops[j - 1].op = "write") =>
                    ChunkSoFar(w.ops, j - 1) = ChunkTarget(w.ops, j - 1)
        /\ ~w.failed => w.out = FromOffsetZero(w.ops)

\* A paced emission of two chunks has completed: the first, longer than
\* the buffer, in two sub-writes before its flush.
C34_Witness ==
    /\ PacedStarted
    /\ pc = "done"
    /\ ~w.failed
    /\ sw.FlushPerChunk
    /\ sw.ChunkSize > bufferSize
    /\ bufferSize > 1
    /\ sw.TotalSize > sw.ChunkSize
    /\ Len(w.out) = sw.TotalSize
    /\ Len(w.ops) > 3
    /\ w.ops[1].op = "write" /\ w.ops[1].n = bufferSize
    /\ w.ops[2].op = "write" /\ w.ops[2].n = sw.ChunkSize - bufferSize
    /\ w.ops[3].op = "flush"

\* A last chunk shorter than chunk_size and longer than the buffer.
C34_WitnessPartial ==
    /\ PacedStarted
    /\ pc = "done"
    /\ ~w.failed
    /\ sw.FlushPerChunk
    /\ sw.ChunkSize > bufferSize
    /\ sw.TotalSize > sw.ChunkSize
    /\ sw.TotalSize % sw.ChunkSize > bufferSize
    /\ Len(w.out) = sw.TotalSize

(***************************************************************************)
(* The gRPC calls and the interceptors installed by Server.Start.  The    *)
(* server dispatches a call (CallArrives) and runs the interceptor of its *)
(* kind, which loads the drain flag once and either returns Unavailable   *)
(* or invokes the handler.                                                 *)
(***************************************************************************)
\* The registered methods: EchoService and the health service.
UnaryMethods ==
    {"Echo", "Check"}

StreamMethods ==
    {"StreamEcho", "Watch"}

\* The frame of the actions of this group.
CallFrame ==
    /\ UNCHANGED emitVars
    /\ UNCHANGED drainVars
    /\ UNCHANGED poolVars
    /\ UNCHANGED loopVars
    /\ UNCHANGED hostVars
    /\ UNCHANGED bodyVars
    /\ UNCHANGED isoVars

\* The server dispatches a new call: its interceptor is about to run.
\* started records the drain flag at that moment.
CallArrives ==
    /\ Len(grpcCalls) < MaxCalls
    /\ \E m \in UnaryMethods \cup StreamMethods :
          grpcCalls' = Append(grpcCalls,
                              [method |-> m, started |-> Draining,
                               pc |-> "interceptor", code |-> "none",
                               handled |-> FALSE])
    /\ CallFrame

\* A unary interceptor without the draining check.
UnaryNeverRejects ==
    FALSE

\* logUnaryInterceptor: if common.Draining.Load()
UnaryRejects ==
    Draining

\* logStreamInterceptor: if common.Draining.Load()
StreamRejects ==
    Draining

\* logUnaryInterceptor up to the call of the handler.
logUnaryInterceptor(i) ==
    /\ grpcCalls[i].pc = "interceptor"
    /\ grpcCalls[i].method \in UnaryMethods
    /\ grpcCalls' = IF UnaryRejects
                      THEN [grpcCalls EXCEPT ![i].pc = "returned",
                                             ![i].code = "Unavailable"]
                      ELSE [grpcCalls EXCEPT ![i].pc = "handler",
                                             ![i].handled = TRUE]
    /\ CallFrame

\* logStreamInterceptor up to the call of the handler.
logStreamInterceptor(i) ==
    /\ grpcCalls[i].pc = "interceptor"
    /\ grpcCalls[i].method \in StreamMethods
    /\ grpcCalls' = IF StreamRejects
                      THEN [grpcCalls EXCEPT ![i].pc = "returned",
                                             ![i].code = "Unavailable"]
                      ELSE [grpcCalls EXCEPT ![i].pc = "handler",
                                             ![i].handled = TRUE]
    /\ CallFrame

\* The handler returns, and the interceptor returns what it returned: a
\* response, or the handler's own error.
HandlerReturns(i) ==
    /\ grpcCalls[i].pc = "handler"
    /\ \E c \in {"OK", "Error"} :
          grpcCalls' = [grpcCalls EXCEPT ![i].pc = "returned", ![i].code = c]
    /\ CallFrame

NextCalls ==
    \/ Signal
    \/ SetDraining
    \/ CallArrives
    \/ \E i \in 1..Len(grpcCalls) : logUnaryInterceptor(i)
    \/ \E i \in 1..Len(grpcCalls) : logStreamInterceptor(i)
    \/ \E i \in 1..Len(grpcCalls) : HandlerReturns(i)

SpecCalls ==
    Init /\ [][NextCalls]_vars

\* Call i was rejected for draining.
RejectedForDraining(i) ==
    grpcCalls[i].code = "Unavailable"

(***************************************************************************)
(* C35.  After the drain flag is set, every newly started gRPC call,      *)
(* unary or streaming, is rejected with status Unavailable by the         *)
(* interceptor without invoking the service handler; before the flag is   *)
(* set no call is rejected for draining.                                  *)
(***************************************************************************)
C35_InterceptorRejectsWhileDraining ==
    /\ \A i \in 1..Len(grpcCalls) :
          grpcCalls[i].started =>
              /\ ~grpcCalls[i].handled
              /\ grpcCalls[i].pc = "returned" => RejectedForDraining(i)
    /\ ~Draining => \A i \in 1..Len(grpcCalls) : ~RejectedForDraining(i)

\* A unary and a streaming call that started after the flag was set were
\* both rejected, after a call that had started before it was handled.
C35_Witness ==
    /\ Len(grpcCalls) = 3
    /\ ~grpcCalls[1].started /\ grpcCalls[1].handled /\ grpcCalls[1].code = "OK"
    /\ grpcCalls[2].started /\ grpcCalls[2].method = "Echo"
    /\ RejectedForDraining(2) /\ ~grpcCalls[2].handled
    /\ grpcCalls[3].started /\ grpcCalls[3].method = "StreamEcho"
    /\ RejectedForDraining(3) /\ ~grpcCalls[3].handled

\* A call dispatched before the flag was set whose interceptor ran after
\* it: rejected, the flag being set by then.
C35_WitnessRace ==
    /\ Len(grpcCalls) > 0
    /\ ~grpcCalls[1].started
    /\ RejectedForDraining(1)
    /\ Draining

(***************************************************************************)
(* Reading the request body: PopulateRequestJSONWithOptions with its      *)
(* three paths.  The body reader returns the body in pieces of any        *)
(* length the destination allows.                                          *)
(***************************************************************************)
\* MaxResponseBodySize (1 MB in the source, scaled) and ReadChunkSize
\* (64 KB, scaled): as in the source, the second divides the first.
MaxResponseBodySize == 4

ReadChunkSize == 2

\* The frame of the actions of this group.
BodyFrame ==
    /\ UNCHANGED emitVars
    /\ UNCHANGED drainVars
    /\ UNCHANGED poolVars
    /\ UNCHANGED loopVars
    /\ UNCHANGED hostVars
    /\ UNCHANGED isoVars
    /\ UNCHANGED callVars

\* PopulateRequestJSONWithOptions up to the first read: the buffered
\* fallback when there is no body stream, else readBodyWithDelay or
\* readBodyFast.
PopulateRequestJSONWithOptions ==
    /\ reqBody.pc = "idle"
    /\ \E len \in 0..MaxBodyLen, streamed \in BOOLEAN, delayMs \in Delays :
          reqBody' =
             IF ~streamed
               THEN [NoBody EXCEPT
                       !.pc = "returned", !.path = "buffered", !.len = len,
                       !.BodySize = len,
                       !.kept = IF len > MaxResponseBodySize
                                  THEN MaxResponseBodySize ELSE len,
                       !.marker = len > MaxResponseBodySize,
                       !.BodyTruncated = len > MaxResponseBodySize]
             ELSE IF delayMs > 0
               THEN [NoBody EXCEPT
                       !.pc = "read", !.path = "delay", !.len = len,
                       !.left = len,
                       !.previewRemaining = MaxResponseBodySize]
             ELSE [NoBody EXCEPT
                     !.pc = "readfull", !.path = "fast", !.len = len,
                     !.left = len]
    /\ BodyFrame

\* readBodyFast: one Read made by io.ReadFull, which goes on until the
\* buffer of MaxResponseBodySize bytes is full or the body ends.
FastRead ==
    /\ reqBody.pc = "readfull"
    /\ reqBody.n < MaxResponseBodySize
    /\ reqBody.left > 0
    /\ \E k \in 1..Min(reqBody.left, MaxResponseBodySize - reqBody.n) :
          reqBody' = [reqBody EXCEPT !.n = @ + k, !.left = @ - k]
    /\ BodyFrame

\* io.ReadFull returns a nil error: the buffer was filled.
ReadFullFilled ==
    reqBody.n = MaxResponseBodySize

\* readBodyFast after io.ReadFull: the body ended first (io.EOF or
\* io.ErrUnexpectedEOF), or the buffer was filled and the rest is to be
\* discarded.
FastAfterReadFull ==
    /\ reqBody.pc = "readfull"
    /\ ReadFullFilled \/ reqBody.left = 0
    /\ reqBody' =
          IF ReadFullFilled
            THEN [reqBody EXCEPT !.pc = "discard", !.kept = reqBody.n,
                                 !.marker = TRUE, !.BodyTruncated = TRUE]
            ELSE [reqBody EXCEPT !.pc = "returned", !.kept = reqBody.n,
                                 !.marker = FALSE, !.BodySize = reqBody.n,
                                 !.BodyTruncated = FALSE]
    /\ BodyFrame

\* readBodyFast: one Read of io.CopyBuffer into the discard buffer.
Discard ==
    /\ reqBody.pc = "discard"
    /\ reqBody.left > 0
    /\ \E k \in 1..Min(reqBody.left, ReadChunkSize) :
          reqBody' = [reqBody EXCEPT !.discarded = @ + k, !.left = @ - k]
    /\ BodyFrame

\* readBodyFast: io.CopyBuffer returns at the end of the body.
DiscardDone ==
    /\ reqBody.pc = "discard"
    /\ reqBody.left = 0
    /\ reqBody' = [reqBody EXCEPT !.pc = "returned",
                                  !.BodySize = reqBody.n + reqBody.discarded]
    /\ BodyFrame

\* readBodyWithDelay: one turn of the loop.  bodyReader.Read(buf.B)
\* returns k bytes, with io.EOF at once or on a later call when they
\* were the last; after io.EOF the Body is assembled.
DelayRead ==
    /\ reqBody.pc = "read"
    /\ \E k \in 0..Min(reqBody.left, ReadChunkSize), eof \in BOOLEAN :
          /\ k = 0 => (eof /\ reqBody.left = 0)
          /\ eof => k = reqBody.left
          /\ LET counted == IF k > 0 THEN reqBody.BodySize + k
                                     ELSE reqBody.BodySize
                 collects == k > 0 /\ reqBody.previewRemaining > 0
                 toKeep == Min(k, reqBody.previewRemaining)
                 truncated == IF collects /\ k > reqBody.previewRemaining
                                THEN TRUE ELSE reqBody.BodyTruncated
                 preview == IF collects THEN reqBody.preview + toKeep
                                        ELSE reqBody.preview
                 remaining == IF collects
                                THEN reqBody.previewRemaining - toKeep
                                ELSE reqBody.previewRemaining
             IN  reqBody' =
                    [reqBody EXCEPT
                       !.left = @ - k,
                       !.BodySize = counted,
                       !.BodyTruncated = truncated,
                       !.preview = preview,
                       !.previewRemaining = remaining,
                       !.pc = IF eof THEN "returned" ELSE "read",
                       !.kept = IF eof THEN preview ELSE @,
                       !.marker = IF eof THEN truncated ELSE @]
    /\ BodyFrame

NextBody ==
    \/ PopulateRequestJSONWithOptions
    \/ FastRead
    \/ FastAfterReadFull
    \/ Discard
    \/ DiscardDone
    \/ DelayRead

SpecBody ==
    Init /\ [][NextBody]_vars

\* The body has been read and the RequestJSON filled.
BodyRead ==
    reqBody.pc = "returned"

(***************************************************************************)
(* C36.  On every request-body read path (buffered fallback,              *)
(* readBodyFast, readBodyWithDelay) and for every body length and         *)
(* chunking of the reads, BodyTruncated is true exactly when the body is  *)
(* larger than MaxResponseBodySize, BodySize equals the total number of   *)
(* body bytes received, and the echoed Body carries the truncation marker *)
(* exactly when BodyTruncated is true.                                    *)
(***************************************************************************)
C36_BodyTruncatedIffLarger ==
    BodyRead =>
        /\ reqBody.BodyTruncated <=> reqBody.len > MaxResponseBodySize
        /\ reqBody.BodySize = reqBody.len
        /\ reqBody.marker <=> reqBody.BodyTruncated

\* What holds on all three paths: the size, the marker, and the length of
\* the echoed prefix.
C36_SizeAndMarker ==
    BodyRead =>
        /\ reqBody.BodySize = reqBody.len
        /\ reqBody.marker <=> reqBody.BodyTruncated
        /\ reqBody.kept = Min(reqBody.len, MaxResponseBodySize)

\* The buffered fallback satisfies the whole statement.
C36_BufferedFallback ==
    (BodyRead /\ reqBody.path = "buffered") =>
        (reqBody.BodyTruncated <=> reqBody.len > MaxResponseBodySize)

\* Bodies shorter than the limit are never marked truncated, bodies
\* longer than it always are on the fast path.
C36_AwayFromTheLimit ==
    BodyRead =>
        /\ reqBody.len < MaxResponseBodySize => ~reqBody.BodyTruncated
        /\ (reqBody.path = "fast" /\ reqBody.len > MaxResponseBodySize) =>
               reqBody.BodyTruncated

\* readBodyFast with a body of exactly MaxResponseBodySize bytes: marked
\* truncated although nothing was cut.
C36_Witness ==
    /\ BodyRead
    /\ reqBody.path = "fast"
    /\ reqBody.len = MaxResponseBodySize
    /\ reqBody.BodySize = MaxResponseBodySize
    /\ reqBody.kept = MaxResponseBodySize
    /\ reqBody.BodyTruncated
    /\ reqBody.marker

\* readBodyWithDelay with a longer body whose reads fill the preview
\* exactly: cut, yet not marked truncated.
C36_WitnessDelay ==
    /\ BodyRead
    /\ reqBody.path = "delay"
    /\ reqBody.len > MaxResponseBodySize
    /\ reqBody.BodySize = reqBody.len
    /\ reqBody.kept = MaxResponseBodySize
    /\ ~reqBody.BodyTruncated
    /\ ~reqBody.marker

(***************************************************************************)
(* Termination of an emission.  The sink's writes, flushes and sleeps     *)
(* always return, so a running Write or WriteTo takes its next step       *)
(* (WriteStep); a transport that pulls with Read goes on calling it with  *)
(* a non-empty slice (PullStep) unless it hands off with WriteTo or stops *)
(* pulling.                                                                *)
(***************************************************************************)
WriteStep ==
    \/ BodyStreamWriter
    \/ BulkWrite
    \/ BulkFlush
    \/ ChunkSleep
    \/ ChunkBegin
    \/ ChunkWrite
    \/ ChunkEnd
    \/ FinalFlush
    \/ WriteToFull
    \/ WriteToTail

PullStep ==
    \E lenp \in 1..MaxReadLen : ReaderRead(lenp)

FairEmit ==
    /\ SpecEmit
    /\ WF_vars(WriteStep)
    /\ WF_vars(PullStep)

\* An emission is under way: the closure is registered or Write runs, the
\* reader is being pulled, or WriteTo runs.
Emitting ==
    pc \in {"registered", "bulk", "loop", "chunk", "inner", "reader", "writeto"}

\* The emission is over: Write returned, Read gave io.EOF, WriteTo
\* returned, or the transport stopped pulling.
Terminated ==
    pc \in {"done", "eof", "handedoff", "abandoned"}

(***************************************************************************)
(* C37.  For every total_size, chunk_size > 0, delay and flush setting    *)
(* and buffer capacity > 0, with a sink whose writes always return, each  *)
(* emission (StreamWriter.Write in bulk or paced mode,                    *)
(* StreamWriter.WriteTo, and a Read loop with non-empty read requests)    *)
(* terminates after finitely many steps.                                  *)
(***************************************************************************)
C37_EmissionTerminates ==
    Emitting ~> Terminated

\* A paced emission of several chunks with a delay has returned.
C37_Witness ==
    /\ path = "chunked"
    /\ pc = "done"
    /\ ~BulkMode(sw)
    /\ sw.DelayMs > 0
    /\ ~w.failed
    /\ loc.totalChunks > 1
    /\ loc.i = loc.totalChunks
    /\ Len(w.out) = sw.TotalSize

\* A Read loop over several buffers has reached end-of-data.
C37_WitnessRead ==
    /\ path = "contentlength"
    /\ pc = "eof"
    /\ adapter.writeTos = 0
    /\ sw.TotalSize > 2 * bufferSize
    /\ Len(w.out) = sw.TotalSize

\* The bytes the known-length adapter has produced.
Produced ==
    Len(w.out)

(***************************************************************************)
(* C38.  For any sequence of Read and WriteTo calls on one known-length   *)
(* adapter (including a WriteTo issued after some bytes were already      *)
(* pulled with Read), the total number of bytes the adapter produces      *)
(* never exceeds total_size.                                              *)
(***************************************************************************)
C38_NeverMoreThanTotalSize ==
    (path = "contentlength" /\ sw.TotalSize >= 0) => Produced <= sw.TotalSize

\* The bound holds for Reads alone, and for one WriteTo on a reader that
\* nothing was pulled from.
C38_ReadsAloneOrOneWriteTo ==
    (path = "contentlength" /\ sw.TotalSize >= 0) =>
        /\ adapter.writeTos = 0 => Produced <= sw.TotalSize
        /\ (adapter.writeTos = 1 /\ sw.written = 0) => Produced <= sw.TotalSize

\* Some bytes were pulled with Read, then WriteTo was called before any
\* cleanup: it wrote the whole body again from the start.
C38_Witness ==
    /\ path = "contentlength"
    /\ pc = "handedoff"
    /\ adapter.writeTos = 1
    /\ adapter.late = 0
    /\ ~w.failed
    /\ sw.written > 0
    /\ sw.written < sw.TotalSize
    /\ Produced = sw.written + sw.TotalSize

\* The positions in the frame log of the echoes written while the drain
\* flag was set.
EchoesWhileDraining ==
    {j \in 1..Len(ws.frames) :
        /\ ws.frames[j].type \in MessageTypes
        /\ ws.frames[j].draining}

(***************************************************************************)
(* C39.  After the drain flag is set, each WebSocket echo connection      *)
(* echoes at most one further message (the one whose read was already     *)
(* pending when the flag was set) before it sends its going-away close    *)
(* frame and leaves the loop.                                              *)
(***************************************************************************)
C39_AtMostOneEchoAfterDrain ==
    /\ Cardinality(EchoesWhileDraining) <= 1
    /\ \A j \in EchoesWhileDraining :
          /\ j >= Len(ws.frames) - 1
          /\ j < Len(ws.frames) => ClosedGoingAway
    /\ (Draining /\ ws.pc = "read") => EchoesWhileDraining = {}

\* The flag was set while a read was pending; the message that then
\* arrived was echoed, the next check wrote the close frame and the loop
\* was left.
C39_Witness ==
    /\ ws.pc = "disconnected"
    /\ ws.flag
    /\ Len(ws.frames) = 3
    /\ ~ws.frames[1].draining
    /\ EchoesWhileDraining = {2}
    /\ ws.frames[2].ok
    /\ ClosedGoingAway

====
